---- MODULE Spec2Model ----
(***************************************************************************)
(* A model of the reflection-driven object mapper of go-mapper: Mapper.Map *)
(* and its recursive dispatcher mapValue with the shape handlers, the     *)
(* operation context (visited set, depth, soft errors) and the context    *)
(* pool.  The recursion of the Go code is kept as an explicit call stack  *)
(* per caller; reflect.Value destinations are locations in a heap,        *)
(* reflect.Value sources are typed values.                                *)
(***************************************************************************)
EXTENDS Integers, Sequences, FiniteSets, TLC

VARIABLES scn, cfg, heap, ctxs, pool, stack, ret, held, calls

vars == <<scn, cfg, heap, ctxs, pool, stack, ret, held, calls>>

(***************************************************************************)
(* Bounds of the model.                                                    *)
(***************************************************************************)
NumNodes == 2
MaxCalls == 2
DepthCap == 6

(***************************************************************************)
(* Program constants.                                                      *)
(***************************************************************************)
DefaultMaxDepth == 32
NoDepthLimit == -1
DefaultTagName == "mapper"

min(a, b) == IF a < b THEN a ELSE b

(***************************************************************************)
(* The Go types of the model and what reflect reports about them.          *)
(***************************************************************************)
Field(name, typ, exported) ==
    [name |-> name, typ |-> typ, exported |-> exported, anon |-> FALSE,
     mapper |-> "", json |-> ""]

\* a field with the struct tag `mapper:"m" json:"j"`
Tagged(f, m, j) == [f EXCEPT !.mapper = m, !.json = j]

Kind(t) ==
    CASE t \in {"int", "Money"} -> "Int"
      [] t = "string" -> "String"
      [] t = "chan int" -> "Chan"
      [] t = "func()" -> "Func"
      [] t \in {"*Node", "*int"} -> "Pointer"
      [] t \in {"[]*Node", "[]int"} -> "Slice"
      [] t \in {"map[string]*Node", "map[string]int", "map[string]string"} -> "Map"
      [] t = "interface{}" -> "Interface"
      [] t \in {"[1]int", "[3]int"} -> "Array"
      [] t \in {"Person", "Node", "Bag", "Order", "Invoice", "Source", "Destination",
                 "Wide", "Secret"} -> "Struct"
      [] OTHER -> "Invalid"

Elem(t) ==
    CASE t = "*Node" -> "Node"
      [] t = "*int" -> "int"
      [] t = "[]*Node" -> "*Node"
      [] t = "[]int" -> "int"
      [] t \in {"[1]int", "[3]int"} -> "int"
      [] t = "map[string]*Node" -> "*Node"
      [] t = "map[string]int" -> "int"
      [] t = "map[string]string" -> "string"
      [] OTHER -> "invalid"

Key(t) == IF Kind(t) = "Map" THEN "string" ELSE "invalid"

\* reflect.Type.Len of an array type
ArrayLen(t) == IF t = "[1]int" THEN 1 ELSE IF t = "[3]int" THEN 3 ELSE 0

Fields(t) ==
    CASE t = "Person" -> << Field("Name", "string", TRUE), Field("Age", "int", TRUE) >>
      [] t = "Node" -> << Field("Val", "int", TRUE), Field("Next", "*Node", TRUE),
                          Field("Alt", "*Node", TRUE) >>
      [] t = "Bag" -> << Field("Items", "[]*Node", TRUE),
                         Field("Dict", "map[string]*Node", TRUE),
                         Field("Any", "interface{}", TRUE),
                         Field("Ch", "chan int", TRUE),
                         Field("Fn", "func()", TRUE) >>
      [] t = "Order" -> << Field("ID", "int", TRUE), Field("Price", "Money", TRUE),
                           Field("Note", "string", TRUE) >>
      [] t = "Invoice" -> << Field("ID", "int", TRUE), Field("Price", "string", TRUE),
                             Field("Note", "string", TRUE) >>
      [] t = "Source" -> << Tagged(Field("FullName", "string", TRUE), "name", "Name"),
                            Tagged(Field("Years", "int", TRUE), "age", "-") >>
      [] t = "Destination" -> << Field("Name", "string", TRUE), Field("Age", "int", TRUE) >>
      [] t = "Secret" -> << Field("name", "string", FALSE), Field("Age", "int", TRUE) >>
      [] t = "Wide" -> << Field("NAME", "string", TRUE), Field("Name", "string", TRUE),
                          Field("Age", "int", TRUE), Field("FullName", "string", TRUE),
                          Field("Years", "int", TRUE) >>
      [] OTHER -> << >>

(***************************************************************************)
(* Values.  Every value carries its type t; n is the number of an integer  *)
(* or the address held by a pointer, map, slice, channel or function value *)
(* (0 is nil); s is the text of a string; len the length of a slice; f the *)
(* fields of a struct, or the dynamic value of a non-nil interface.        *)
(***************************************************************************)
Val(t, n, s, len, f) == [t |-> t, n |-> n, s |-> s, len |-> len, f |-> f]

InvalidVal == Val("invalid", 0, "", 0, << >>)
IntVal(n) == Val("int", n, "", 0, << >>)
StrVal(s) == Val("string", 0, s, 0, << >>)
RefVal(t, a) == Val(t, a, "", 0, << >>)
SliceVal(t, a, len) == Val(t, a, "", len, << >>)
StructVal(t, f) == Val(t, 0, "", 0, f)
IfaceVal(v) == Val("interface{}", 0, "", 0, << v >>)

RECURSIVE Zero(_)
\* reflect.Zero(t)
Zero(t) ==
    IF Kind(t) = "Struct"
    THEN StructVal(t, [i \in 1..Len(Fields(t)) |-> Zero(Fields(t)[i].typ)])
    ELSE IF Kind(t) = "Array"
    THEN Val(t, 0, "", 0, [i \in 1..ArrayLen(t) |-> Zero(Elem(t))])
    ELSE Val(t, 0, "", 0, << >>)

IsValid(v) == v.t # "invalid"

IsNillable(k) == k \in {"Chan", "Func", "Interface", "Map", "Pointer", "Slice"}

IsPointerLike(k) == k \in {"Pointer", "Map", "Slice", "Chan", "Func"}

\* reflect.Value.IsNil for a value of a nillable kind
IsNil(v) == IF Kind(v.t) = "Interface" THEN v.f = << >> ELSE v.n = 0

\* reflect.Value.IsZero
IsZero(v) == v = Zero(v.t)

(***************************************************************************)
(* The heap.  An object is a cell holding one value (the target of a       *)
(* pointer, or a slot made by reflect.New), the backing array of a slice   *)
(* (e holds the elements), a map (m holds the key/value pairs), or the     *)
(* identity of a channel or function.  The heap is a sequence: the address *)
(* of an object is its index, allocation appends.                          *)
(***************************************************************************)
Obj(e, m) == [e |-> e, m |-> m]
Cell(v) == Obj(<< v >>, {})
Arr(e) == Obj(e, {})
MapObj(m) == Obj(<< >>, m)
Opaque == Obj(<< >>, {})

(***************************************************************************)
(* Locations: a settable reflect.Value.  a is the address of the object,   *)
(* p the path inside it: an index into e, then field or element indexes.   *)
(* a = 0 is the zero reflect.Value.                                        *)
(***************************************************************************)
Loc(a, p) == [a |-> a, p |-> p]
NoLoc == Loc(0, << >>)
LocValid(l) == l.a # 0

RECURSIVE GetPath(_, _)
GetPath(v, p) == IF p = << >> THEN v ELSE GetPath(v.f[Head(p)], Tail(p))

RECURSIVE SetPath(_, _, _)
SetPath(v, p, x) ==
    IF p = << >> THEN x
    ELSE [v EXCEPT !.f = [v.f EXCEPT ![Head(p)] = SetPath(v.f[Head(p)], Tail(p), x)]]

ReadLoc(h, l) ==
    IF LocValid(l) THEN GetPath(h[l.a].e[Head(l.p)], Tail(l.p)) ELSE InvalidVal

WriteLoc(h, l, x) ==
    [h EXCEPT ![l.a].e[Head(l.p)] = SetPath(h[l.a].e[Head(l.p)], Tail(l.p), x)]

(***************************************************************************)
(* Errors.  kind "nil" is the nil error.  A sentinel is one of the         *)
(* package's error variables; idx lists the slice indexes added by         *)
(* fmt.Errorf("slice index %d: %w"), which keeps the sentinel reachable    *)
(* for errors.Is.  A summary is the error Map builds with                  *)
(* fmt.Errorf("mapping completed with %d errors: %v"): it carries the      *)
(* count and the text of the first soft error (of, name, idx), and %v      *)
(* does not wrap it.                                                       *)
(***************************************************************************)
Err(kind, name, idx, count, of) ==
    [kind |-> kind, name |-> name, idx |-> idx, count |-> count, of |-> of]

Nil == Err("nil", "", << >>, 0, "")
NoRet == Err("none", "", << >>, 0, "")
Sentinel(name) == Err("sentinel", name, << >>, 0, "")
ErrNilPointer == Sentinel("ErrNilPointer")
ErrInvalidDestination == Sentinel("ErrInvalidDestination")
ErrMaxDepthExceeded == Sentinel("ErrMaxDepthExceeded")
ErrCircularReference == Sentinel("ErrCircularReference")
ConverterError(name) == Err("converter", name, << >>, 0, "")

\* fmt.Errorf("slice index %d: %w", i, err)
WrapIndex(i, e) == [e EXCEPT !.idx = << i >> \o @]

\* fmt.Errorf("mapping completed with %d errors: %v", len(errors), errors[0])
Summary(errors) ==
    Err("summary", errors[1].name, errors[1].idx, Len(errors), errors[1].kind)

\* errors.Is(e, target) for a sentinel target
ErrorsIs(e, target) == e.kind = "sentinel" /\ e.name = target.name

\* the error an error's message names
Reports(e, target) ==
    /\ e.kind \in {"sentinel", "summary"}
    /\ e.name = target.name
    /\ e.kind = "summary" => e.of = "sentinel"

(***************************************************************************)
(* Config and the functional options.                                      *)
(***************************************************************************)
Opt(opt, n, b, s, c) == [opt |-> opt, n |-> n, b |-> b, s |-> s, c |-> c]

WithMaxDepth(depth) == Opt("WithMaxDepth", depth, FALSE, "", "")
WithTagName(tag) == Opt("WithTagName", 0, FALSE, tag, "")
WithIgnoreUnexported(b) == Opt("WithIgnoreUnexported", 0, b, "", "")
WithDeepCopy(b) == Opt("WithDeepCopy", 0, b, "", "")
WithZeroFields(b) == Opt("WithZeroFields", 0, b, "", "")
\* a faulty variant of WithIgnoreNilFields: the option never turns the
\* skipping of nil fields on
WithIgnoreNilFieldsOff(b) == Opt("WithIgnoreNilFields", 0, FALSE, "", "")
WithIgnoreNilFields(b) == Opt("WithIgnoreNilFields", 0, b, "", "")
WithCaseSensitive(b) == Opt("WithCaseSensitive", 0, b, "", "")
WithJSONTag(b) == Opt("WithJSONTag", 0, b, "", "")
WithCustomConverter(typ, converter) == Opt("WithCustomConverter", 0, FALSE, typ, converter)
WithFieldNameMapper(mapper) == Opt("WithFieldNameMapper", 0, FALSE, "", mapper)
WithErrorHandler(handler) == Opt("WithErrorHandler", 0, FALSE, "", handler)
WithSkipCircularCheck(b) == Opt("WithSkipCircularCheck", 0, b, "", "")
WithTimeLayout(layout) == Opt("WithTimeLayout", 0, FALSE, layout, "")
WithMaxSliceCapacity(capacity) == Opt("WithMaxSliceCapacity", capacity, FALSE, "", "")
WithAllowPrivateFields(b) == Opt("WithAllowPrivateFields", 0, b, "", "")

\* the Config literal of NewMapper; fields it does not name are zero
NewMapperConfig ==
    [MaxDepth |-> DefaultMaxDepth, TagName |-> "", IgnoreUnexported |-> TRUE,
     DeepCopy |-> TRUE, ZeroFields |-> FALSE, IgnoreNilFields |-> FALSE,
     CaseSensitive |-> TRUE, UseJSONTag |-> FALSE, SkipCircularCheck |-> FALSE,
     CustomConverters |-> {}, FieldNameMapper |-> "", ErrorHandler |-> "",
     TimeLayout |-> "", MaxSliceCapacity |-> 0, AllowPrivateFields |-> FALSE]

\* defaultConfig(), which no function of the package calls
defaultConfig ==
    [MaxDepth |-> DefaultMaxDepth, TagName |-> DefaultTagName, IgnoreUnexported |-> TRUE,
     DeepCopy |-> TRUE, ZeroFields |-> FALSE, IgnoreNilFields |-> FALSE,
     CaseSensitive |-> TRUE, UseJSONTag |-> FALSE, SkipCircularCheck |-> FALSE,
     CustomConverters |-> {}, FieldNameMapper |-> "", ErrorHandler |-> "",
     TimeLayout |-> "2006-01-02T15:04:05Z07:00", MaxSliceCapacity |-> 1048576,
     AllowPrivateFields |-> FALSE]

ApplyOption(c, o) ==
    CASE o.opt = "WithMaxDepth" -> [c EXCEPT !.MaxDepth = o.n]
      [] o.opt = "WithTagName" -> [c EXCEPT !.TagName = o.s]
      [] o.opt = "WithIgnoreUnexported" -> [c EXCEPT !.IgnoreUnexported = o.b]
      [] o.opt = "WithDeepCopy" -> [c EXCEPT !.DeepCopy = o.b]
      [] o.opt = "WithZeroFields" -> [c EXCEPT !.ZeroFields = o.b]
      [] o.opt = "WithIgnoreNilFields" -> [c EXCEPT !.IgnoreNilFields = o.b]
      [] o.opt = "WithCaseSensitive" -> [c EXCEPT !.CaseSensitive = o.b]
      [] o.opt = "WithJSONTag" -> [c EXCEPT !.UseJSONTag = o.b]
      [] o.opt = "WithCustomConverter" ->
            [c EXCEPT !.CustomConverters =
                {pr \in @ : pr[1] # o.s} \cup {<< o.s, o.c >>}]
      [] o.opt = "WithFieldNameMapper" -> [c EXCEPT !.FieldNameMapper = o.c]
      [] o.opt = "WithErrorHandler" -> [c EXCEPT !.ErrorHandler = o.c]
      [] o.opt = "WithSkipCircularCheck" -> [c EXCEPT !.SkipCircularCheck = o.b]
      [] o.opt = "WithTimeLayout" -> [c EXCEPT !.TimeLayout = o.s]
      [] o.opt = "WithMaxSliceCapacity" -> [c EXCEPT !.MaxSliceCapacity = o.n]
      [] o.opt = "WithAllowPrivateFields" -> [c EXCEPT !.AllowPrivateFields = o.b]

RECURSIVE ApplyOptions(_, _)
ApplyOptions(c, opts) ==
    IF opts = << >> THEN c ELSE ApplyOptions(ApplyOption(c, Head(opts)), Tail(opts))

\* NewMapper(opts...): the config of the Mapper it returns
NewMapper(opts) == ApplyOptions(NewMapperConfig, opts)

HasConverter(c, t) == \E pr \in c.CustomConverters : pr[1] = t
ConverterFor(c, t) == (CHOOSE pr \in c.CustomConverters : pr[1] = t)[2]

(***************************************************************************)
(* The callbacks a caller registers.  A converter returns a value and an   *)
(* error; the error handler returns the error to record, or nil.           *)
(***************************************************************************)
\* strconv.Itoa for the numbers of the model
Itoa(n) ==
    CASE n = 1 -> "1"
      [] n = 2 -> "2"
      [] n = 5 -> "5"
      [] n = 7 -> "7"
      [] n = -1 -> "-1"
      [] OTHER -> "0"

\* the converters the callers of the model register: "rejectNegative"
\* rejects a negative amount and returns any other amount unchanged,
\* "format" returns the decimal text of a number as a string, "same"
\* returns the value it is given
CallConverter(converter, v) ==
    CASE converter = "rejectNegative" ->
            IF v.n < 0 THEN [val |-> v, err |-> ConverterError("negative amount")]
            ELSE [val |-> v, err |-> Nil]
      [] converter = "format" -> [val |-> StrVal(Itoa(v.n)), err |-> Nil]
      [] OTHER -> [val |-> v, err |-> Nil]

CallErrorHandler(handler, err, srcField, dstField) ==
    CASE handler = "suppress" -> Nil
      [] handler = "replace" -> Err("handler", srcField, << >>, 0, "")
      [] OTHER -> err

(***************************************************************************)
(* The operation context.                                                  *)
(***************************************************************************)
Context(visited, depth, config, errors) ==
    [visited |-> visited, depth |-> depth, config |-> config, errors |-> errors]

\* the context sync.Pool's New function makes: no config yet
PoolNew == Context({}, 0, FALSE, << >>)

\* a faulty variant of ResetContext: the visited addresses and the errors of
\* the previous call stay in the context
ResetContextKeeps(ctx) == [ctx EXCEPT !.depth = 0, !.config = TRUE]

\* the reset Map performs on the context it took from the pool
ResetContext(ctx) == Context({}, 0, TRUE, << >>)

\* a faulty variant of checkCircular: the address is never recorded
checkCircularUnmarked(ctx, v) ==
    IF ~IsValid(v) \/ ~IsPointerLike(Kind(v.t)) THEN [err |-> Nil, visited |-> ctx.visited]
    ELSE IF v.n = 0 THEN [err |-> Nil, visited |-> ctx.visited]
    ELSE IF v.n \in ctx.visited THEN [err |-> ErrCircularReference, visited |-> ctx.visited]
    ELSE [err |-> Nil, visited |-> ctx.visited]

\* context.checkCircular: the error, and the visited set afterwards
checkCircular(ctx, v) ==
    IF ~IsValid(v) \/ ~IsPointerLike(Kind(v.t)) THEN [err |-> Nil, visited |-> ctx.visited]
    ELSE IF v.n = 0 THEN [err |-> Nil, visited |-> ctx.visited]
    ELSE IF v.n \in ctx.visited THEN [err |-> ErrCircularReference, visited |-> ctx.visited]
    ELSE [err |-> Nil, visited |-> ctx.visited \cup {v.n}]

\* context.addError
addError(ctx, err) ==
    IF err = Nil THEN ctx ELSE [ctx EXCEPT !.errors = Append(@, err)]

(***************************************************************************)
(* Type relations of package reflect, for the types of the model.          *)
(***************************************************************************)
\* reflect.Type.AssignableTo
AssignableTo(t1, t2) == t1 = t2 \/ Kind(t2) = "Interface"

\* reflect.Type.ConvertibleTo: integers convert to integers and to strings
\* (Go's string(rune) conversion), every type to the empty interface
ConvertibleTo(t1, t2) ==
    \/ t1 = t2
    \/ Kind(t1) = "Int" /\ Kind(t2) \in {"Int", "String"}
    \/ Kind(t1) = "String" /\ Kind(t2) = "String"
    \/ Kind(t2) = "Interface"

\* string(rune(n)) for the code points the model uses
RuneString(n) ==
    CASE n = 1 -> "\\x01"
      [] n = 2 -> "\\x02"
      [] n = 7 -> "\\a"
      [] n = 30 -> "\\x1e"
      [] OTHER -> "\\uFFFD"

\* what reflect.Value.Set stores in a destination of type t
SetValue(t, x) ==
    IF Kind(t) = "Interface" /\ Kind(x.t) # "Interface" THEN IfaceVal(x) ELSE x

\* reflect.Value.Convert
ConvertValue(v, t) ==
    CASE Kind(t) = "Interface" -> SetValue(t, v)
      [] Kind(v.t) = "Int" /\ Kind(t) = "String" -> Val(t, 0, RuneString(v.n), 0, << >>)
      [] OTHER -> [v EXCEPT !.t = t]

\* reflect.Value.CanSet.  Every location the handlers reach is addressable;
\* a field of an unexported name is not settable, which mapStruct tests on
\* the field (FieldPlan); the zero Value is not settable.
CanSet(l) == LocValid(l)

\* dst.Elem() of a pointer held at location l
ElemLoc(h, l) ==
    IF LocValid(l) /\ ReadLoc(h, l).n # 0 THEN Loc(ReadLoc(h, l).n, << 1 >>) ELSE NoLoc

\* dst.Field(j) of a struct, dst.Index(j-1) of an array, held at location l
SubLoc(l, j) == Loc(l.a, l.p \o << j >>)

(***************************************************************************)
(* Field resolution.                                                       *)
(***************************************************************************)
\* the bytes of the field names of the model
NameBytes(name) ==
    CASE name = "Name" -> << 78, 97, 109, 101 >>
      [] name = "Age" -> << 65, 103, 101 >>
      [] name = "Val" -> << 86, 97, 108 >>
      [] name = "Next" -> << 78, 101, 120, 116 >>
      [] name = "Alt" -> << 65, 108, 116 >>
      [] name = "Items" -> << 73, 116, 101, 109, 115 >>
      [] name = "Dict" -> << 68, 105, 99, 116 >>
      [] name = "Any" -> << 65, 110, 121 >>
      [] name = "Ch" -> << 67, 104 >>
      [] name = "Fn" -> << 70, 110 >>
      [] name = "ID" -> << 73, 68 >>
      [] name = "Price" -> << 80, 114, 105, 99, 101 >>
      [] name = "Note" -> << 78, 111, 116, 101 >>
      [] name = "NAME" -> << 78, 65, 77, 69 >>
      [] name = "name" -> << 110, 97, 109, 101 >>
      [] name = "age" -> << 97, 103, 101 >>
      [] name = "FullName" -> << 70, 117, 108, 108, 78, 97, 109, 101 >>
      [] name = "fullname" -> << 102, 117, 108, 108, 110, 97, 109, 101 >>
      [] name = "Years" -> << 89, 101, 97, 114, 115 >>
      [] name = "years" -> << 121, 101, 97, 114, 115 >>
      [] OTHER -> << >>

\* reflectutil.ToLower
ToLower(c) == IF 65 <= c /\ c <= 90 THEN c + (97 - 65) ELSE c

\* reflectutil.EqualFold
EqualFold(a, b) ==
    /\ Len(NameBytes(a)) = Len(NameBytes(b))
    /\ \A i \in 1..Len(NameBytes(a)) : ToLower(NameBytes(a)[i]) = ToLower(NameBytes(b)[i])

\* srcField.Tag.Get(key)
TagGet(sf, key) ==
    CASE key = "mapper" -> sf.mapper
      [] key = "json" -> sf.json
      [] OTHER -> ""

\* strings.ToLower for the field names of the model
LowerName(name) ==
    CASE name = "FullName" -> "fullname"
      [] name = "Years" -> "years"
      [] name \in {"Name", "NAME"} -> "name"
      [] name = "Age" -> "age"
      [] OTHER -> name

\* the FieldNameMapper callbacks of the callers of the model: "lower" is
\* func(name string) string { return strings.ToLower(name) }
CallFieldNameMapper(mapper, name) ==
    IF mapper = "lower" THEN LowerName(name) ELSE name

\* a faulty variant of getDestFieldName: the json tag is consulted before
\* the configured tag
getDestFieldNameJSONFirst(conf, sf) ==
    IF conf.UseJSONTag /\ TagGet(sf, "json") \notin {"", "-"}
    THEN TagGet(sf, "json")
    ELSE IF conf.TagName # "" /\ TagGet(sf, conf.TagName) \notin {"", "-"}
    THEN TagGet(sf, conf.TagName)
    ELSE IF conf.FieldNameMapper # ""
    THEN CallFieldNameMapper(conf.FieldNameMapper, sf.name)
    ELSE sf.name

\* context.getDestFieldName
getDestFieldName(conf, sf) ==
    IF conf.TagName # "" /\ TagGet(sf, conf.TagName) \notin {"", "-"}
    THEN TagGet(sf, conf.TagName)
    ELSE IF conf.UseJSONTag /\ TagGet(sf, "json") \notin {"", "-"}
    THEN TagGet(sf, "json")
    ELSE IF conf.FieldNameMapper # ""
    THEN CallFieldNameMapper(conf.FieldNameMapper, sf.name)
    ELSE sf.name

\* the least index of a field of type t that satisfies P, or 0
FirstField(t, P(_)) ==
    IF \E j \in 1..Len(Fields(t)) : P(Fields(t)[j])
    THEN CHOOSE j \in 1..Len(Fields(t)) :
            /\ P(Fields(t)[j])
            /\ \A j2 \in 1..(j - 1) : ~P(Fields(t)[j2])
    ELSE 0

\* a faulty variant of findDstField: the scan that ignores case comes before
\* the exact lookup
findDstFieldFoldFirst(conf, dstType, fieldName) ==
    LET exact(df) == df.name = fieldName
        fold(df) == EqualFold(df.name, fieldName)
    IN  IF ~conf.CaseSensitive /\ FirstField(dstType, fold) # 0
        THEN FirstField(dstType, fold)
        ELSE FirstField(dstType, exact)

\* context.findDstField: the index of the destination field, or 0
findDstField(conf, dstType, fieldName) ==
    LET exact(df) == df.name = fieldName
        fold(df) == EqualFold(df.name, fieldName)
    IN  IF FirstField(dstType, exact) # 0 THEN FirstField(dstType, exact)
        ELSE IF ~conf.CaseSensitive THEN FirstField(dstType, fold)
        ELSE 0

\* mapStruct, lines 487-512: the index of the destination field that source
\* field i is mapped to, or 0 when the field is skipped
FieldPlan(conf, srcType, dstType, i) ==
    LET sf == Fields(srcType)[i]
        j == findDstField(conf, dstType, getDestFieldName(conf, sf))
    IN  IF conf.IgnoreUnexported /\ ~sf.exported /\ ~sf.anon THEN 0
        ELSE IF conf.TagName # "" /\ TagGet(sf, conf.TagName) \in {"", "-"} THEN 0
        ELSE IF j = 0 THEN 0
        ELSE IF ~Fields(dstType)[j].exported THEN 0
        ELSE j

\* a faulty variant of FieldFailed: without an error handler the error of
\* the field is lost instead of being accumulated
FieldFailedLosesError(conf, c, err, srcField, dstField) ==
    IF conf.ErrorHandler # ""
    THEN addError(c, CallErrorHandler(conf.ErrorHandler, err, srcField, dstField))
    ELSE c

\* mapStruct, lines 521-528: the context after the mapping of a field failed
FieldFailed(conf, c, err, srcField, dstField) ==
    IF conf.ErrorHandler # ""
    THEN addError(c, CallErrorHandler(conf.ErrorHandler, err, srcField, dstField))
    ELSE addError(c, err)

(***************************************************************************)
(* The handlers' pure parts.                                               *)
(***************************************************************************)
\* a faulty variant of ArgCheck: the kind of the destination is checked
\* before the nil arguments
ArgCheckKindFirst(dst, srcNil) ==
    IF dst \notin {"ptr", "nilptr"} THEN ErrInvalidDestination
    ELSE IF srcNil THEN ErrNilPointer
    ELSE Nil

\* Mapper.Map, lines 320-327: the check of the arguments.  dst is "nil"
\* (no destination), "value" (not a pointer), "nilptr" (a typed nil
\* pointer) or "ptr" (a pointer to a variable)
ArgCheck(dst, srcNil) ==
    IF dst = "nil" \/ srcNil THEN ErrNilPointer
    ELSE IF dst \notin {"ptr", "nilptr"} THEN ErrInvalidDestination
    ELSE Nil

\* a faulty variant of MapResult: the accumulated errors are ignored
MapResultIgnoresAccumulated(err, errors) == err

\* Mapper.Map, lines 342-351: the error Map returns
MapResult(err, errors) ==
    IF err # Nil THEN err
    ELSE IF Len(errors) > 0 THEN Summary(errors)
    ELSE Nil

\* a faulty variant of MapValueChecks: the registered converters are not
\* consulted
MapValueChecksNoConverter(h, c, conf, dst, src) ==
    LET k == Kind(src.t)
        dv == ReadLoc(h, dst)
        cc == IF ~conf.SkipCircularCheck /\ IsPointerLike(k)
              THEN checkCircular(c, src)
              ELSE [err |-> Nil, visited |-> c.visited]
        out(done, err, hp, visited) ==
            [done |-> done, err |-> err, heap |-> hp, visited |-> visited]
    IN  IF ~IsValid(src) THEN out(TRUE, Nil, h, c.visited)
        ELSE IF conf.MaxDepth # NoDepthLimit /\ c.depth > conf.MaxDepth
        THEN out(TRUE, ErrMaxDepthExceeded, h, c.visited)
        ELSE IF IsNillable(k) /\ IsNil(src)
        THEN IF ~conf.IgnoreNilFields /\ CanSet(dst) /\ IsNillable(Kind(dv.t))
             THEN out(TRUE, Nil, WriteLoc(h, dst, Zero(dv.t)), c.visited)
             ELSE out(TRUE, Nil, h, c.visited)
        ELSE IF cc.err # Nil THEN out(TRUE, cc.err, h, cc.visited)
        ELSE out(FALSE, Nil, h, cc.visited)

\* mapValue, lines 378-415: everything before the dispatch.  done says that
\* mapValue returns err without dispatching
MapValueChecks(h, c, conf, dst, src) ==
    LET k == Kind(src.t)
        dv == ReadLoc(h, dst)
        cc == IF ~conf.SkipCircularCheck /\ IsPointerLike(k)
              THEN checkCircular(c, src)
              ELSE [err |-> Nil, visited |-> c.visited]
        conv == CallConverter(ConverterFor(conf, src.t), src)
        out(done, err, hp, visited) ==
            [done |-> done, err |-> err, heap |-> hp, visited |-> visited]
    IN  IF ~IsValid(src) THEN out(TRUE, Nil, h, c.visited)
        ELSE IF conf.MaxDepth # NoDepthLimit /\ c.depth > conf.MaxDepth
        THEN out(TRUE, ErrMaxDepthExceeded, h, c.visited)
        ELSE IF IsNillable(k) /\ IsNil(src)
        THEN IF ~conf.IgnoreNilFields /\ CanSet(dst) /\ IsNillable(Kind(dv.t))
             THEN out(TRUE, Nil, WriteLoc(h, dst, Zero(dv.t)), c.visited)
             ELSE out(TRUE, Nil, h, c.visited)
        ELSE IF cc.err # Nil THEN out(TRUE, cc.err, h, cc.visited)
        ELSE IF HasConverter(conf, src.t)
        THEN IF conv.err # Nil THEN out(TRUE, conv.err, h, cc.visited)
             ELSE IF CanSet(dst) /\ AssignableTo(conv.val.t, dv.t)
             THEN out(TRUE, Nil, WriteLoc(h, dst, SetValue(dv.t, conv.val)), cc.visited)
             ELSE out(TRUE, Nil, h, cc.visited)
        ELSE out(FALSE, Nil, h, cc.visited)

\* mapValue, lines 420-433: the handler of a kind
Handler(k) ==
    CASE k = "Pointer" -> "mapPointer"
      [] k = "Struct" -> "mapStruct"
      [] k = "Map" -> "mapMap"
      [] k \in {"Slice", "Array"} -> "mapSlice"
      [] k = "Interface" -> "mapInterface"
      [] OTHER -> "mapBasic"

\* dst.Set(reflect.New(dst.Type().Elem())) for the pointer at location l
NewPointee(h, l) ==
    WriteLoc(Append(h, Cell(Zero(Elem(ReadLoc(h, l).t)))), l,
             RefVal(ReadLoc(h, l).t, Len(h) + 1))

\* a faulty variant of mapPointerDst: the destination pointer is made to
\* point at the pointee of the source, and nothing is mapped below it
mapPointerDstAliasing(h, dst, src) ==
    [heap |-> IF CanSet(dst) /\ Kind(ReadLoc(h, dst).t) = "Pointer"
              THEN WriteLoc(h, dst, src) ELSE h,
     dst |-> NoLoc]

\* mapPointer, lines 449-458, for a non-nil src: the heap after the
\* allocation and the destination mapValue is called with
mapPointerDst(h, dst, src) ==
    IF Kind(ReadLoc(h, dst).t) = "Pointer"
    THEN LET h1 == IF IsNil(ReadLoc(h, dst)) /\ CanSet(dst) THEN NewPointee(h, dst) ELSE h
         IN  [heap |-> h1, dst |-> ElemLoc(h1, dst)]
    ELSE [heap |-> h, dst |-> dst]

\* a faulty variant of mapBasic: a value is only stored when it has to be
\* converted
mapBasicConvertsOnly(h, dst, src) ==
    IF ~CanSet(dst) THEN h
    ELSE IF src.t # ReadLoc(h, dst).t /\ ConvertibleTo(src.t, ReadLoc(h, dst).t)
    THEN WriteLoc(h, dst, ConvertValue(src, ReadLoc(h, dst).t))
    ELSE h

\* mapBasic: the heap afterwards
mapBasic(h, dst, src) ==
    IF ~CanSet(dst) THEN h
    ELSE IF src.t = ReadLoc(h, dst).t THEN WriteLoc(h, dst, src)
    ELSE IF ConvertibleTo(src.t, ReadLoc(h, dst).t)
    THEN WriteLoc(h, dst, ConvertValue(src, ReadLoc(h, dst).t))
    ELSE h

\* src.Len(), src.Index(i) and dst.Index(i) of a slice or an array
LenOf(v) == IF Kind(v.t) = "Slice" THEN v.len ELSE Len(v.f)
IndexVal(h, v, i) == IF Kind(v.t) = "Slice" THEN h[v.n].e[i + 1] ELSE v.f[i + 1]
IndexLoc(h, l, i) ==
    IF Kind(ReadLoc(h, l).t) = "Slice" THEN Loc(ReadLoc(h, l).n, << i + 1 >>)
    ELSE SubLoc(l, i + 1)

\* a faulty variant of mapSliceAlloc: a destination slice that is not nil
\* is kept even when it is shorter than the source
mapSliceAllocNilOnly(h, dst, src) ==
    LET dv == ReadLoc(h, dst)
        srcLen == LenOf(src)
    IN  IF Kind(dv.t) = "Slice" /\ IsNil(dv) /\ CanSet(dst)
        THEN WriteLoc(Append(h, Arr([i \in 1..srcLen |-> Zero(Elem(dv.t))])), dst,
                      SliceVal(dv.t, Len(h) + 1, srcLen))
        ELSE h

\* mapSlice, lines 575-583: the heap after the allocation of the destination
mapSliceAlloc(h, dst, src) ==
    LET dv == ReadLoc(h, dst)
        srcLen == LenOf(src)
    IN  IF Kind(dv.t) = "Slice" /\ (IsNil(dv) \/ LenOf(dv) < srcLen) /\ CanSet(dst)
        THEN WriteLoc(Append(h, Arr([i \in 1..srcLen |-> Zero(Elem(dv.t))])), dst,
                      SliceVal(dv.t, Len(h) + 1, srcLen))
        ELSE h

\* mapMap, lines 541-543: the heap after the allocation of the destination
mapMapAlloc(h, dst) ==
    IF IsNil(ReadLoc(h, dst)) /\ CanSet(dst)
    THEN WriteLoc(Append(h, MapObj({})), dst, RefVal(ReadLoc(h, dst).t, Len(h) + 1))
    ELSE h

\* a faulty variant of SetMapIndex: an entry under an equal key stays
SetMapIndexAdds(h, l, key, val) ==
    [h EXCEPT ![ReadLoc(h, l).n].m = @ \cup {<< key, val >>}]

\* dst.SetMapIndex(key, val) for the map at location l
SetMapIndex(h, l, key, val) ==
    [h EXCEPT ![ReadLoc(h, l).n].m = {pr \in @ : pr[1] # key} \cup {<< key, val >>}]

(***************************************************************************)
(* The callers and their call stacks.  A frame is one activation of Map,   *)
(* mapValue or a handler: its arguments dst and src, its position pc, and  *)
(* its locals (i the loop index, n the loop bound or destination field,    *)
(* todo the map entries not yet iterated, cur the value of the map entry   *)
(* at hand, k and v the slots made with reflect.New).  ret[p] is the error *)
(* a callee of caller p has just returned, NoRet when none is pending.     *)
(***************************************************************************)
NumCallers == 2
Procs == 1..NumCallers

Frame(fn, pc, dst, src) ==
    [fn |-> fn, pc |-> pc, dst |-> dst, src |-> src, i |-> 0, n |-> 0,
     todo |-> {}, cur |-> InvalidVal, k |-> NoLoc, v |-> NoLoc]

Top(p) == stack[p][Len(stack[p])]
ReplaceTop(st, f) == [st EXCEPT ![Len(st)] = f]
At(p, fn, pc) == stack[p] # << >> /\ Top(p).fn = fn /\ Top(p).pc = pc
ctxOf(p) == ctxs[held[p]]

\* the top frame returns e to its caller
Return(p, e) ==
    /\ stack' = [stack EXCEPT ![p] = SubSeq(@, 1, Len(@) - 1)]
    /\ ret' = [ret EXCEPT ![p] = e]

\* the top frame continues as f
Goto(p, f) ==
    /\ stack' = [stack EXCEPT ![p] = ReplaceTop(@, f)]
    /\ ret' = [ret EXCEPT ![p] = NoRet]

\* the top frame continues as f once the call of mapValue(dst, src) returns
Call(p, f, dst, src) ==
    /\ stack' = [stack EXCEPT ![p] =
                    Append(ReplaceTop(@, f), Frame("mapValue", "entry", dst, src))]
    /\ ret' = [ret EXCEPT ![p] = NoRet]

\* what a finished Map call leaves: the destination it was given, the error
\* it returned, the context it used and the soft errors that context held
CallRecord(dst, res, ctx, errors) ==
    [dst |-> dst, res |-> res, ctx |-> ctx, errors |-> errors]

\* the top frame ends with `return ctx.mapValue(dst, src)`
TailCall(p, dst, src) == Goto(p, Frame("mapValue", "entry", dst, src))

\* a faulty variant of PoolGet: a context that a call in flight holds may be
\* handed out again
PoolGetHeld == (1..Len(ctxs)) \cup {0}

\* m.pool.Get(), line 331: the contexts Get may return, 0 standing for a new
\* one made by the pool's New function
PoolGet == pool \cup {0}

(***************************************************************************)
(* Mapper.Map, lines 319-342: the argument checks, the context taken from  *)
(* the pool (an old one, or a new one from the pool's New function) and    *)
(* reset, and the call of mapValue.  The destination of a caller that      *)
(* passes a pointer is a new variable of the scenario's destination type.  *)
(***************************************************************************)
Map(p) ==
    /\ p <= scn.callers
    /\ stack[p] = << >>
    /\ Len(calls[p]) < scn.ncalls
    /\ LET dstElem == IF scn.dst = "ptr" THEN Loc(Len(heap) + 1, << 1 >>) ELSE NoLoc
       IN  /\ heap' = IF scn.dst = "ptr" THEN Append(heap, Cell(scn.dstInit)) ELSE heap
           /\ IF ArgCheck(scn.dst, scn.srcNil) # Nil
              THEN /\ calls' = [calls EXCEPT ![p] =
                                   Append(@, CallRecord(dstElem, ArgCheck(scn.dst, scn.srcNil),
                                                        0, << >>))]
                   /\ UNCHANGED << ctxs, pool, stack, ret, held >>
              ELSE \E c \in PoolGet :
                   /\ ctxs' = IF c = 0 THEN Append(ctxs, ResetContext(PoolNew))
                              ELSE [ctxs EXCEPT ![c] = ResetContext(@)]
                   /\ pool' = pool \ {c}
                   /\ held' = [held EXCEPT ![p] = IF c = 0 THEN Len(ctxs) + 1 ELSE c]
                   /\ stack' = [stack EXCEPT ![p] =
                                   << Frame("Map", "wait", dstElem, scn.src),
                                      Frame("mapValue", "entry", dstElem, scn.src) >>]
                   /\ ret' = [ret EXCEPT ![p] = NoRet]
                   /\ UNCHANGED calls
    /\ UNCHANGED << scn, cfg >>

\* Mapper.Map, lines 342-351, and the deferred pool.Put
MapReturn(p) ==
    /\ At(p, "Map", "wait")
    /\ ret[p] # NoRet
    /\ calls' = [calls EXCEPT ![p] =
                    Append(@, CallRecord(Top(p).dst, MapResult(ret[p], ctxOf(p).errors),
                                         held[p], ctxOf(p).errors))]
    /\ pool' = pool \cup {held[p]}
    /\ held' = [held EXCEPT ![p] = 0]
    /\ stack' = [stack EXCEPT ![p] = << >>]
    /\ ret' = [ret EXCEPT ![p] = NoRet]
    /\ UNCHANGED << scn, cfg, heap, ctxs >>

(***************************************************************************)
(* context.mapValue, lines 377-433: the checks, then depth++ and the       *)
(* dispatch to the handler of the source's kind.                           *)
(***************************************************************************)
MapValue(p) ==
    /\ At(p, "mapValue", "entry")
    /\ ctxOf(p).depth <= DepthCap
    /\ LET f == Top(p)
           r == MapValueChecks(heap, ctxOf(p), cfg, f.dst, f.src)
       IN  /\ heap' = r.heap
           /\ IF r.done
              THEN /\ ctxs' = [ctxs EXCEPT ![held[p]].visited = r.visited]
                   /\ Return(p, r.err)
              ELSE /\ ctxs' = [ctxs EXCEPT ![held[p]].visited = r.visited,
                                           ![held[p]].depth = @ + 1]
                   /\ stack' = [stack EXCEPT ![p] =
                                   Append(ReplaceTop(@, [f EXCEPT !.pc = "deferred"]),
                                          Frame(Handler(Kind(f.src.t)), "entry", f.dst, f.src))]
                   /\ ret' = [ret EXCEPT ![p] = NoRet]
    /\ UNCHANGED << scn, cfg, pool, held, calls >>

\* a faulty variant of MapValueReturn: the depth is decremented only when
\* the handler returns without an error
MapValueReturnLeaks(p) ==
    /\ At(p, "mapValue", "deferred")
    /\ ret[p] # NoRet
    /\ ctxs' = [ctxs EXCEPT ![held[p]].depth = IF ret[p] = Nil THEN @ - 1 ELSE @]
    /\ Return(p, ret[p])
    /\ UNCHANGED << scn, cfg, heap, pool, held, calls >>

\* context.mapValue, line 418: the deferred depth-- when the handler returns
MapValueReturn(p) ==
    /\ At(p, "mapValue", "deferred")
    /\ ret[p] # NoRet
    /\ ctxs' = [ctxs EXCEPT ![held[p]].depth = @ - 1]
    /\ Return(p, ret[p])
    /\ UNCHANGED << scn, cfg, heap, pool, held, calls >>

\* context.mapPointer
MapPointer(p) ==
    /\ At(p, "mapPointer", "entry")
    /\ LET f == Top(p)
           r == mapPointerDst(heap, f.dst, f.src)
       IN  IF IsNil(f.src)
           THEN /\ heap' = IF ~cfg.IgnoreNilFields /\ CanSet(f.dst)
                           THEN WriteLoc(heap, f.dst, Zero(ReadLoc(heap, f.dst).t))
                           ELSE heap
                /\ Return(p, Nil)
           ELSE /\ heap' = r.heap
                /\ TailCall(p, r.dst, heap[f.src.n].e[1])
    /\ UNCHANGED << scn, cfg, ctxs, pool, held, calls >>

\* context.mapBasic
MapBasic(p) ==
    /\ At(p, "mapBasic", "entry")
    /\ heap' = mapBasic(heap, Top(p).dst, Top(p).src)
    /\ Return(p, Nil)
    /\ UNCHANGED << scn, cfg, ctxs, pool, held, calls >>

(***************************************************************************)
(* context.mapStruct.  MapStruct is lines 464-484, MapStructField one pass *)
(* of the loop up to the call of mapValue (lines 486-521), and             *)
(* MapStructFieldDone the rest of that pass (lines 521-529).               *)
(***************************************************************************)
MapStruct(p) ==
    /\ At(p, "mapStruct", "entry")
    /\ LET f == Top(p)
           dv == ReadLoc(heap, f.dst)
           h1 == IF IsNil(dv) /\ CanSet(f.dst) THEN NewPointee(heap, f.dst) ELSE heap
       IN  IF Kind(dv.t) = "Pointer"
           THEN /\ heap' = h1
                /\ Goto(p, [f EXCEPT !.dst = ElemLoc(h1, f.dst)])
           ELSE IF Kind(dv.t) # "Struct"
           THEN /\ heap' = heap
                /\ Return(p, Nil)
           ELSE IF f.src.t = "time.Time"
           THEN /\ heap' = IF dv.t = f.src.t /\ CanSet(f.dst)
                           THEN WriteLoc(heap, f.dst, f.src) ELSE heap
                /\ Return(p, Nil)
           ELSE /\ heap' = heap
                /\ Goto(p, [f EXCEPT !.pc = "loop", !.i = 1])
    /\ UNCHANGED << scn, cfg, ctxs, pool, held, calls >>

MapStructField(p) ==
    /\ At(p, "mapStruct", "loop")
    /\ LET f == Top(p)
           j == FieldPlan(cfg, f.src.t, ReadLoc(heap, f.dst).t, f.i)
           srcValue == f.src.f[f.i]
           dstValue == SubLoc(f.dst, j)
       IN  IF f.i > Len(Fields(f.src.t))
           THEN /\ heap' = heap
                /\ Return(p, Nil)
           ELSE IF j = 0
           THEN /\ heap' = heap
                /\ Goto(p, [f EXCEPT !.i = @ + 1])
           ELSE IF cfg.ZeroFields /\ IsZero(srcValue)
           THEN /\ heap' = WriteLoc(heap, dstValue, Zero(ReadLoc(heap, dstValue).t))
                /\ Goto(p, [f EXCEPT !.i = @ + 1])
           ELSE /\ heap' = heap
                /\ Call(p, [f EXCEPT !.pc = "wait", !.n = j], dstValue, srcValue)
    /\ UNCHANGED << scn, cfg, ctxs, pool, held, calls >>

MapStructFieldDone(p) ==
    /\ At(p, "mapStruct", "wait")
    /\ ret[p] # NoRet
    /\ LET f == Top(p)
           srcField == Fields(f.src.t)[f.i].name
           dstField == Fields(ReadLoc(heap, f.dst).t)[f.n].name
       IN  /\ ctxs' = IF ret[p] # Nil
                      THEN [ctxs EXCEPT ![held[p]] = FieldFailed(cfg, @, ret[p], srcField, dstField)]
                      ELSE ctxs
           /\ Goto(p, [f EXCEPT !.pc = "loop", !.i = @ + 1])
    /\ UNCHANGED << scn, cfg, heap, pool, held, calls >>

(***************************************************************************)
(* context.mapMap.  MapMap is lines 537-545; MapMapEntry takes the next    *)
(* entry of the iteration, in any order, and maps its key (lines 546-553); *)
(* MapMapKeyDone and MapMapValueDone are lines 553-562.                    *)
(***************************************************************************)
MapMap(p) ==
    /\ At(p, "mapMap", "entry")
    /\ LET f == Top(p)
       IN  IF Kind(f.src.t) # "Map" \/ Kind(ReadLoc(heap, f.dst).t) # "Map"
           THEN /\ heap' = heap
                /\ Return(p, Nil)
           ELSE /\ heap' = mapMapAlloc(heap, f.dst)
                /\ Goto(p, [f EXCEPT !.pc = "loop", !.todo = heap[f.src.n].m])
    /\ UNCHANGED << scn, cfg, ctxs, pool, held, calls >>

MapMapEntry(p) ==
    /\ At(p, "mapMap", "loop")
    /\ LET f == Top(p)
           dt == ReadLoc(heap, f.dst).t
           newKey == Loc(Len(heap) + 1, << 1 >>)
           newVal == Loc(Len(heap) + 2, << 1 >>)
       IN  IF f.todo = {}
           THEN /\ heap' = heap
                /\ Return(p, Nil)
           ELSE \E e \in f.todo :
                /\ heap' = heap \o << Cell(Zero(Key(dt))), Cell(Zero(Elem(dt))) >>
                /\ Call(p, [f EXCEPT !.pc = "key", !.todo = @ \ {e}, !.cur = e[2],
                                     !.k = newKey, !.v = newVal],
                        newKey, e[1])
    /\ UNCHANGED << scn, cfg, ctxs, pool, held, calls >>

MapMapKeyDone(p) ==
    /\ At(p, "mapMap", "key")
    /\ ret[p] # NoRet
    /\ LET f == Top(p)
       IN  IF ret[p] # Nil
           THEN /\ ctxs' = [ctxs EXCEPT ![held[p]] = addError(@, ret[p])]
                /\ Goto(p, [f EXCEPT !.pc = "loop"])
           ELSE /\ ctxs' = ctxs
                /\ Call(p, [f EXCEPT !.pc = "value"], f.v, f.cur)
    /\ UNCHANGED << scn, cfg, heap, pool, held, calls >>

MapMapValueDone(p) ==
    /\ At(p, "mapMap", "value")
    /\ ret[p] # NoRet
    /\ LET f == Top(p)
       IN  /\ ctxs' = [ctxs EXCEPT ![held[p]] = addError(@, ret[p])]
           /\ heap' = IF ret[p] # Nil THEN heap
                      ELSE SetMapIndex(heap, f.dst, ReadLoc(heap, f.k), ReadLoc(heap, f.v))
           /\ Goto(p, [f EXCEPT !.pc = "loop"])
    /\ UNCHANGED << scn, cfg, pool, held, calls >>

(***************************************************************************)
(* context.mapSlice.  MapSlice is lines 571-585, MapSliceElem and          *)
(* MapSliceElemDone one pass of the loop (lines 586-590).                  *)
(***************************************************************************)
MapSlice(p) ==
    /\ At(p, "mapSlice", "entry")
    /\ LET f == Top(p)
           h1 == mapSliceAlloc(heap, f.dst, f.src)
       IN  IF Kind(ReadLoc(heap, f.dst).t) \notin {"Slice", "Array"}
           THEN /\ heap' = heap
                /\ Return(p, Nil)
           ELSE /\ heap' = h1
                /\ Goto(p, [f EXCEPT !.pc = "loop", !.i = 0,
                                     !.n = min(LenOf(ReadLoc(h1, f.dst)), LenOf(f.src))])
    /\ UNCHANGED << scn, cfg, ctxs, pool, held, calls >>

MapSliceElem(p) ==
    /\ At(p, "mapSlice", "loop")
    /\ LET f == Top(p)
       IN  IF f.i >= f.n
           THEN Return(p, Nil)
           ELSE Call(p, [f EXCEPT !.pc = "wait"],
                     IndexLoc(heap, f.dst, f.i), IndexVal(heap, f.src, f.i))
    /\ UNCHANGED << scn, cfg, heap, ctxs, pool, held, calls >>

MapSliceElemDone(p) ==
    /\ At(p, "mapSlice", "wait")
    /\ ret[p] # NoRet
    /\ ctxs' = IF ret[p] # Nil
               THEN [ctxs EXCEPT ![held[p]] = addError(@, WrapIndex(Top(p).i, ret[p]))]
               ELSE ctxs
    /\ Goto(p, [Top(p) EXCEPT !.pc = "loop", !.i = @ + 1])
    /\ UNCHANGED << scn, cfg, heap, pool, held, calls >>

(***************************************************************************)
(* context.mapInterface.  MapInterface is lines 598-612, MapInterfaceDone  *)
(* lines 612-620.                                                          *)
(***************************************************************************)
MapInterface(p) ==
    /\ At(p, "mapInterface", "entry")
    /\ LET f == Top(p)
           srcElem == IF f.src.f = << >> THEN InvalidVal ELSE f.src.f[1]
           newDst == Loc(Len(heap) + 1, << 1 >>)
       IN  IF Kind(f.src.t) # "Interface"
           THEN /\ heap' = heap
                /\ Return(p, Nil)
           ELSE IF Kind(ReadLoc(heap, f.dst).t) # "Interface"
           THEN /\ heap' = heap
                /\ TailCall(p, f.dst, srcElem)
           ELSE IF ~IsValid(srcElem)
           THEN /\ heap' = heap
                /\ Return(p, Nil)
           ELSE /\ heap' = Append(heap, Cell(Zero(srcElem.t)))
                /\ Call(p, [f EXCEPT !.pc = "wait", !.v = newDst], newDst, srcElem)
    /\ UNCHANGED << scn, cfg, ctxs, pool, held, calls >>

MapInterfaceDone(p) ==
    /\ At(p, "mapInterface", "wait")
    /\ ret[p] # NoRet
    /\ LET f == Top(p)
       IN  IF ret[p] # Nil
           THEN /\ heap' = heap
                /\ Return(p, ret[p])
           ELSE /\ heap' = IF CanSet(f.dst)
                           THEN WriteLoc(heap, f.dst,
                                         SetValue(ReadLoc(heap, f.dst).t, ReadLoc(heap, f.v)))
                           ELSE heap
                /\ Return(p, Nil)
    /\ UNCHANGED << scn, cfg, ctxs, pool, held, calls >>

(***************************************************************************)
(* The scenarios: what the callers pass to NewMapper and to Map.  src is   *)
(* the source value (srcNil: the caller passes nil instead), dst the form  *)
(* of the destination argument and dstInit the value of the destination    *)
(* variable before the call, opts the options, ncalls the number of Map    *)
(* calls each caller makes, callers the number of concurrent callers and   *)
(* heap0 the objects the source refers to.                                 *)
(***************************************************************************)
Scenario(src, srcNil, dst, dstInit, opts, ncalls, callers, heap0) ==
    [src |-> src, srcNil |-> srcNil, dst |-> dst, dstInit |-> dstInit, opts |-> opts,
     ncalls |-> ncalls, callers |-> callers, heap0 |-> heap0]

MaxM == 4
DepthOptions ==
    {<< >>} \cup {<< WithMaxDepth(m) >> : m \in {NoDepthLimit} \cup 0..MaxM}
CheckOptions == {<< >>, << WithSkipCircularCheck(TRUE) >>}

PersonVal(name, age) == StructVal("Person", << StrVal(name), IntVal(age) >>)
NodeVal(val, next, alt) ==
    StructVal("Node", << IntVal(val), RefVal("*Node", next), RefVal("*Node", alt) >>)
BagVal(items, dict, any, ch, fn) == StructVal("Bag", << items, dict, any, ch, fn >>)
OrderVal(id, price, note) ==
    StructVal("Order", << IntVal(id), Val("Money", price, "", 0, << >>), StrVal(note) >>)

\* graphs of NumNodes nodes: node i is at address i
GraphHeap(next, alt) == [i \in 1..NumNodes |-> Cell(NodeVal(i, next[i], IF i = 1 THEN alt ELSE 0))]

GraphScenarios ==
    { Scenario(IF form = "value" THEN GraphHeap(next, alt)[1].e[1] ELSE RefVal("*Node", 1),
               FALSE, "ptr",
               IF form = "pointer" THEN Zero("*Node") ELSE Zero("Node"),
               o1 \o o2, IF o1 \o o2 = << >> THEN MaxCalls ELSE 1, 1,
               GraphHeap(next, alt)) :
        next \in [1..NumNodes -> 0..NumNodes], alt \in 0..NumNodes,
        form \in {"value", "pointer", "deref"},
        o1 \in DepthOptions, o2 \in CheckOptions }

\* the objects of the Bag scenarios
BagHeap ==
    << Cell(NodeVal(1, 0, 0)), Cell(NodeVal(2, 0, 0)),
       Arr(<< RefVal("*Node", 1), RefVal("*Node", 2) >>),
       Arr(<< RefVal("*Node", 1), RefVal("*Node", 1) >>),
       MapObj({ << StrVal("a"), RefVal("*Node", 8) >>, << StrVal("b"), RefVal("*Node", 9) >> }),
       Opaque, Opaque,
       Cell(NodeVal(3, 0, 0)), Cell(NodeVal(4, 0, 0)), Cell(NodeVal(5, 0, 0)) >>

BagSources ==
    { BagVal(items, dict, any, chfn[1], chfn[2]) :
        items \in { Zero("[]*Node"), SliceVal("[]*Node", 3, 2), SliceVal("[]*Node", 4, 2) },
        dict \in { Zero("map[string]*Node"), RefVal("map[string]*Node", 5) },
        any \in { Zero("interface{}"), IfaceVal(IntVal(7)), IfaceVal(RefVal("*Node", 10)),
                  IfaceVal(RefVal("*Node", 2)) },
        chfn \in { << Zero("chan int"), Zero("func()") >>,
                   << RefVal("chan int", 6), Zero("func()") >>,
                   << RefVal("chan int", 6), RefVal("func()", 7) >> } }

BagScenarios ==
    { Scenario(src, FALSE, "ptr", Zero("Bag"), o, MaxCalls, 1, BagHeap) :
        src \in BagSources, o \in {<< >>, << WithMaxDepth(1) >>, << WithMaxDepth(3) >>} }

OrderScenarios ==
    { Scenario(OrderVal(7, price, "n"), FALSE, "ptr", Zero("Order"), o, MaxCalls, 1, << >>) :
        price \in {5, -1},
        o \in {<< >>, << WithCustomConverter("Money", "rejectNegative") >>} }

\* every form of the two arguments of Map
ArgumentScenarios ==
    { Scenario(src, srcNil, dst, Zero(src.t), << >>, MaxCalls, 1, GraphHeap([i \in 1..NumNodes |-> 0], 0)) :
        src \in { PersonVal("Alice", 30), RefVal("*Node", 1) },
        srcNil \in BOOLEAN, dst \in {"nil", "value", "nilptr", "ptr"} }

PersonScenarios ==
    { Scenario(PersonVal(name, age), FALSE, "ptr", Zero("Person"), o, 1, callers, << >>) :
        name \in {"Alice", ""}, age \in {30, 0}, callers \in 1..NumCallers,
        o \in DepthOptions \cup {<< WithMaxDepth(-2) >>} }

\* callers that register an error handler: a field fails because its
\* converter rejects it or because it lies below the depth bound, a slice
\* element or a map entry because it lies below the depth bound
HandlerScenarios ==
    { Scenario(OrderVal(7, price, "n"), FALSE, "ptr", Zero("Order"),
               << WithCustomConverter("Money", "rejectNegative"), WithErrorHandler(h) >>,
               1, 1, << >>) :
        price \in {5, -1}, h \in {"suppress", "replace"} }
    \cup { Scenario(PersonVal("Alice", 30), FALSE, "ptr", Zero("Person"),
                    << WithMaxDepth(0), WithErrorHandler(h) >>, 1, 1, << >>) :
             h \in {"suppress", "replace"} }
    \cup { Scenario(src, FALSE, "ptr", Zero("Bag"),
                    << WithMaxDepth(m), WithErrorHandler("suppress") >>, 1, 1, BagHeap) :
             m \in {1, 3},
             src \in { BagVal(SliceVal("[]*Node", 3, 2), Zero("map[string]*Node"),
                              Zero("interface{}"), Zero("chan int"), Zero("func()")),
                       BagVal(Zero("[]*Node"), RefVal("map[string]*Node", 5),
                              Zero("interface{}"), Zero("chan int"), Zero("func()")) } }

\* the README's tag-based mapping: Source{FullName `mapper:"name"`, Years
\* `mapper:"age"`} into Destination{Name, Age}, and into a struct with
\* fields of every spelling, under every choice of the naming options
SourceVal(name, years) == StructVal("Source", << StrVal(name), IntVal(years) >>)

NameOptions ==
    { tag \o js \o fm \o cs :
        tag \in {<< >>, << WithTagName("mapper") >>},
        js \in {<< >>, << WithJSONTag(TRUE) >>},
        fm \in {<< >>, << WithFieldNameMapper("lower") >>},
        cs \in {<< >>, << WithCaseSensitive(FALSE) >>} }

TagScenarios ==
    { Scenario(SourceVal("Bob", 30), FALSE, "ptr", Zero(dt), o, 1, 1, << >>) :
        dt \in {"Destination", "Wide"}, o \in NameOptions }

\* a map of integers, at address 1
NumbersHeap == << MapObj({ << StrVal("a"), IntVal(1) >>, << StrVal("b"), IntVal(2) >> }) >>

\* converters: for a field copied into a field of the converter's result
\* type and into one of another type, for the top-level value, for the
\* values of a map, and for a struct behind a pointer
ConverterScenarios ==
    { Scenario(OrderVal(7, price, "n"), FALSE, "ptr", Zero(dt),
               << WithCustomConverter("Money", "format") >>, 1, 1, << >>) :
        price \in {5, -1}, dt \in {"Invoice", "Order"} }
    \cup { Scenario(Val("Money", 5, "", 0, << >>), FALSE, "ptr", Zero(dt),
                    << WithCustomConverter("Money", c) >>, 1, 1, << >>) :
             dt \in {"string", "Money"}, c \in {"format", "rejectNegative"} }
    \cup { Scenario(RefVal("map[string]int", 1), FALSE, "ptr", Zero("map[string]string"),
                    << WithCustomConverter("int", "format") >>, 1, 1, NumbersHeap) }
    \cup { Scenario(RefVal("*Node", 1), FALSE, "ptr", Zero("*Node"),
                    << WithCustomConverter("Node", "same") >> \o o, 1, 1,
                    GraphHeap([i \in 1..NumNodes |-> IF i = 1 THEN NumNodes ELSE 0], 0)) :
             o \in {<< >>, << WithMaxDepth(1) >>, << WithMaxDepth(0) >>} }

\* a map of integers copied into a map of strings without a converter
MapScenarios ==
    { Scenario(RefVal("map[string]int", 1), FALSE, "ptr", Zero("map[string]string"),
               << >>, 1, 1, NumbersHeap) }

\* destinations that hold values before the call, sources with nil fields
NilFieldScenarios ==
    { Scenario(src, FALSE, "ptr",
               BagVal(SliceVal("[]*Node", 4, 2), RefVal("map[string]*Node", 5),
                      IfaceVal(IntVal(7)), RefVal("chan int", 6), RefVal("func()", 7)),
               << WithIgnoreNilFields(ign) >> \o o, 1, 1, BagHeap) :
        src \in { Zero("Bag"),
                  BagVal(Zero("[]*Node"), Zero("map[string]*Node"), IfaceVal(IntVal(1)),
                         Zero("chan int"), Zero("func()")) },
        ign \in BOOLEAN,
        o \in {<< >>, << WithZeroFields(TRUE) >>, << WithMaxDepth(0) >>,
               << WithCaseSensitive(FALSE) >>} }
    \cup { Scenario(NodeVal(1, 0, 0), FALSE, "ptr", NodeVal(9, 2, 2),
                    << WithIgnoreNilFields(ign) >> \o o, 1, 1,
                    GraphHeap([i \in 1..NumNodes |-> 0], 0)) :
             ign \in BOOLEAN, o \in {<< >>, << WithZeroFields(TRUE) >>} }

\* a source struct with an unexported field, copied into a struct with an
\* exported field of that name or into a struct of its own type
PrivateScenarios ==
    { Scenario(StructVal("Secret", << StrVal("Bob"), IntVal(30) >>), FALSE, "ptr", Zero(dt),
               << WithAllowPrivateFields(allow) >> \o o, 1, 1, << >>) :
        dt \in {"Destination", "Secret"}, allow \in BOOLEAN,
        o \in {<< >>, << WithCaseSensitive(FALSE) >>} }
    \cup { Scenario(StructVal("Secret", << StrVal("Bob"), IntVal(30) >>), FALSE, "ptr",
                    Zero("Secret"),
                    << WithAllowPrivateFields(allow), WithIgnoreUnexported(FALSE) >>,
                    1, 1, << >>) :
             allow \in BOOLEAN }

\* a slice of two elements copied under a limit on slice allocation
CapacityScenarios ==
    { Scenario(BagVal(SliceVal("[]*Node", 3, 2), Zero("map[string]*Node"),
                      Zero("interface{}"), Zero("chan int"), Zero("func()")),
               FALSE, "ptr", Zero("Bag"), << WithMaxSliceCapacity(m) >>, 1, 1, BagHeap) :
        m \in {1, 2} }

\* sources with a non-nil pointer, slice and map field, copied with deep
\* copying switched on and off
DeepCopyScenarios ==
    { Scenario(NodeVal(1, 2, 0), FALSE, "ptr", Zero("Node"), << WithDeepCopy(deep) >>, 1, 1,
               GraphHeap([i \in 1..NumNodes |-> 0], 0)) : deep \in BOOLEAN }
    \cup { Scenario(BagVal(SliceVal("[]*Node", 3, 2), RefVal("map[string]*Node", 5),
                           Zero("interface{}"), Zero("chan int"), Zero("func()")),
                    FALSE, "ptr", Zero("Bag"), << WithDeepCopy(deep) >>, 1, 1, BagHeap) :
             deep \in BOOLEAN }

\* a source map and a destination map that holds entries before the call
MergeHeap ==
    << MapObj({ << StrVal("a"), IntVal(1) >>, << StrVal("b"), IntVal(-1) >> }),
       MapObj({ << StrVal("a"), IntVal(7) >>, << StrVal("z"), IntVal(9) >> }) >>

\* a map copied into a nil map and into a map with entries, with entries
\* that fail because a converter rejects the value or the depth is exceeded
MergeScenarios ==
    { Scenario(RefVal("map[string]int", 1), FALSE, "ptr", RefVal("map[string]int", d),
               o, 1, 1, MergeHeap) :
        d \in {0, 2},
        o \in {<< >>, << WithCustomConverter("int", "rejectNegative") >>,
               << WithCustomConverter("int", "format") >>, << WithMaxDepth(0) >>,
               << WithMaxDepth(1) >>} }

\* an array value with the given elements
ArrayVal(t, elems) == Val(t, 0, "", 0, elems)

\* a source slice of two integers, and the backing arrays of destination
\* slices of one and of three integers
SliceHeap ==
    << Arr(<< IntVal(1), IntVal(-1) >>), Arr(<< IntVal(7) >>),
       Arr(<< IntVal(7), IntVal(8), IntVal(9) >>) >>

\* a slice copied into a nil, a shorter and a longer slice and into a
\* shorter and a longer array, with elements that fail because a converter
\* rejects them or the depth is exceeded
SliceScenarios ==
    { Scenario(SliceVal("[]int", 1, 2), FALSE, "ptr", d, o, 1, 1, SliceHeap) :
        d \in { Zero("[]int"), SliceVal("[]int", 2, 1), SliceVal("[]int", 3, 3),
                ArrayVal("[1]int", << IntVal(7) >>),
                ArrayVal("[3]int", << IntVal(7), IntVal(8), IntVal(9) >>) },
        o \in {<< >>, << WithCustomConverter("int", "rejectNegative") >>,
               << WithCustomConverter("int", "format") >>, << WithMaxDepth(0) >>} }

\* a node and a map whose two entries hold the pointer to it
SharedHeap ==
    << Cell(NodeVal(1, 0, 0)),
       MapObj({ << StrVal("a"), RefVal("*Node", 1) >>, << StrVal("b"), RefVal("*Node", 1) >> }) >>

\* that map is copied twice, each time iterated in an order of its own
SharedScenarios ==
    { Scenario(RefVal("map[string]*Node", 2), FALSE, "ptr", Zero("map[string]*Node"),
               << >>, 2, 1, SharedHeap) }

Scenarios ==
    GraphScenarios \cup BagScenarios \cup OrderScenarios \cup ArgumentScenarios
        \cup PersonScenarios \cup HandlerScenarios \cup TagScenarios
        \cup ConverterScenarios \cup MapScenarios \cup NilFieldScenarios
        \cup PrivateScenarios \cup CapacityScenarios \cup DeepCopyScenarios
        \cup MergeScenarios \cup SliceScenarios \cup SharedScenarios

(***************************************************************************)
(* The specification.                                                      *)
(***************************************************************************)
Init ==
    /\ scn \in Scenarios
    /\ cfg = NewMapper(scn.opts)
    /\ heap = scn.heap0
    /\ ctxs = << >>
    /\ pool = {}
    /\ stack = [p \in Procs |-> << >>]
    /\ ret = [p \in Procs |-> NoRet]
    /\ held = [p \in Procs |-> 0]
    /\ calls = [p \in Procs |-> << >>]

Next ==
    \E p \in Procs :
        \/ Map(p)
        \/ MapReturn(p)
        \/ MapValue(p)
        \/ MapValueReturn(p)
        \/ MapPointer(p)
        \/ MapBasic(p)
        \/ MapStruct(p)
        \/ MapStructField(p)
        \/ MapStructFieldDone(p)
        \/ MapMap(p)
        \/ MapMapEntry(p)
        \/ MapMapKeyDone(p)
        \/ MapMapValueDone(p)
        \/ MapSlice(p)
        \/ MapSliceElem(p)
        \/ MapSliceElemDone(p)
        \/ MapInterface(p)
        \/ MapInterfaceDone(p)

Spec == Init /\ [][Next]_vars

\* the steps of a call of caller p that is in progress: everything but the
\* decision to call Map
Run(p) ==
    \/ MapReturn(p)
    \/ MapValue(p)
    \/ MapValueReturn(p)
    \/ MapPointer(p)
    \/ MapBasic(p)
    \/ MapStruct(p)
    \/ MapStructField(p)
    \/ MapStructFieldDone(p)
    \/ MapMap(p)
    \/ MapMapEntry(p)
    \/ MapMapKeyDone(p)
    \/ MapMapValueDone(p)
    \/ MapSlice(p)
    \/ MapSliceElem(p)
    \/ MapSliceElemDone(p)
    \/ MapInterface(p)
    \/ MapInterfaceDone(p)

\* the callers whose calls are followed to their end: one call each, on
\* every graph behind a pointer under every depth and address-check option,
\* on the containers, and concurrent calls on one struct
LiveScenarios ==
    { [s EXCEPT !.ncalls = 1] :
        s \in { g \in GraphScenarios : g.dstInit.t = "*Node" }
                \cup HandlerScenarios \cup NilFieldScenarios }
    \cup { s \in PersonScenarios : s.opts = << >> /\ s.src = PersonVal("Alice", 30) }

LiveInit ==
    /\ scn \in LiveScenarios
    /\ cfg = NewMapper(scn.opts)
    /\ heap = scn.heap0
    /\ ctxs = << >>
    /\ pool = {}
    /\ stack = [p \in Procs |-> << >>]
    /\ ret = [p \in Procs |-> NoRet]
    /\ held = [p \in Procs |-> 0]
    /\ calls = [p \in Procs |-> << >>]

\* every goroutine that is inside Map keeps running: no handler blocks or
\* waits for another caller, so the scheduler lets each call take its next
\* step
FairSpec == LiveInit /\ [][Next]_vars /\ \A p \in Procs : WF_vars(Run(p))

TypeOK ==
    /\ \A p \in Procs : Len(calls[p]) <= scn.ncalls
    /\ \A p \in Procs : (held[p] # 0) = (stack[p] # << >>)
    /\ \A p \in Procs : held[p] \notin pool

(***************************************************************************)
(* Notions the properties are stated with.                                 *)
(***************************************************************************)
RefKinds == {"Pointer", "Map", "Slice", "Chan", "Func"}

RECURSIVE RefsOfKind(_, _)
\* the addresses held by the values of kinds K inside value v
RefsOfKind(v, K) ==
    IF Kind(v.t) \in RefKinds
    THEN IF v.n # 0 /\ Kind(v.t) \in K THEN {v.n} ELSE {}
    ELSE UNION { RefsOfKind(v.f[i], K) : i \in 1..Len(v.f) }

\* the addresses held by the values of kinds K inside object o
ObjRefsOfKind(o, K) ==
    UNION ({ RefsOfKind(o.e[i], K) : i \in 1..Len(o.e) }
           \cup { RefsOfKind(pr[1], K) \cup RefsOfKind(pr[2], K) : pr \in o.m })

RECURSIVE ReachFrom(_, _)
\* the objects of heap h reachable from the objects S
ReachFrom(h, S) ==
    LET N == S \cup UNION { ObjRefsOfKind(h[a], RefKinds) : a \in S }
    IN  IF N = S THEN S ELSE ReachFrom(h, N)

\* the objects reachable from value v
Reach(h, v) == ReachFrom(h, RefsOfKind(v, RefKinds))

\* the addresses that values of kinds K hold, in v and in all that v reaches
ReachOfKind(h, v, K) ==
    RefsOfKind(v, K) \cup UNION { ObjRefsOfKind(h[a], K) : a \in Reach(h, v) }

\* some chain of references from v leads back to a reference on the chain
Cyclic(h, v) ==
    \E a \in Reach(h, v) : a \in ReachFrom(h, ObjRefsOfKind(h[a], RefKinds))

RECURSIVE DeepEqual(_, _, _)
\* x and y have the same content: reflect.DeepEqual, but for function
\* values, which are compared by identity
DeepEqual(h, x, y) ==
    LET k == Kind(x.t)
    IN  IF x.t # y.t THEN FALSE
        ELSE IF k = "Pointer"
        THEN (x.n = 0) = (y.n = 0)
             /\ (x.n # 0 /\ x.n # y.n => DeepEqual(h, h[x.n].e[1], h[y.n].e[1]))
        ELSE IF k = "Slice"
        THEN (x.n = 0) = (y.n = 0) /\ x.len = y.len
             /\ \A i \in 1..x.len : DeepEqual(h, h[x.n].e[i], h[y.n].e[i])
        ELSE IF k = "Map"
        THEN (x.n = 0) = (y.n = 0)
             /\ (x.n # 0 =>
                    /\ { pr[1] : pr \in h[x.n].m } = { pr[1] : pr \in h[y.n].m }
                    /\ \A px \in h[x.n].m : \A py \in h[y.n].m :
                          px[1] = py[1] => DeepEqual(h, px[2], py[2]))
        ELSE IF k \in {"Struct", "Interface", "Array"}
        THEN Len(x.f) = Len(y.f) /\ \A i \in 1..Len(x.f) : DeepEqual(h, x.f[i], y.f[i])
        ELSE x = y

RECURSIVE VisitDepth(_, _, _, _)
\* the greatest depth at which mapValue is called when the acyclic value v,
\* itself visited at depth d, is mapped into a destination of its own type
VisitDepth(h, conf, v, d) ==
    LET k == Kind(v.t)
        below(S) == IF S = {} THEN d ELSE CHOOSE m \in S : \A m2 \in S : m2 <= m
    IN  IF IsNillable(k) /\ IsNil(v) THEN d
        ELSE IF k = "Pointer" THEN VisitDepth(h, conf, h[v.n].e[1], d + 1)
        ELSE IF k = "Interface" THEN VisitDepth(h, conf, v.f[1], d + 1)
        ELSE IF k = "Slice"
        THEN below({ VisitDepth(h, conf, h[v.n].e[i], d + 1) : i \in 1..v.len })
        ELSE IF k = "Map"
        THEN below(UNION { { VisitDepth(h, conf, pr[1], d + 1),
                             VisitDepth(h, conf, pr[2], d + 1) } : pr \in h[v.n].m })
        ELSE IF k = "Struct"
        THEN below({ VisitDepth(h, conf, v.f[i], d + 1) :
                        i \in { j \in 1..Len(v.f) :
                                  /\ FieldPlan(conf, v.t, v.t, j) # 0
                                  /\ ~(conf.ZeroFields /\ IsZero(v.f[j])) } })
        ELSE d

\* the finished calls, and what they were given and left
Finished == { c \in Procs \X (1..MaxCalls) : c[2] <= Len(calls[c[1]]) }
CallOf(c) == calls[c[1]][c[2]]
DstOf(c) == ReadLoc(heap, CallOf(c).dst)

SrcCyclic == Cyclic(scn.heap0, scn.src)
SrcReach == Reach(scn.heap0, scn.src)
DefaultOptions == scn.opts = << >>
\* the caller passes a pointer to a zero-valued variable of the source's type
ZeroDstOfSrcType == scn.dst = "ptr" /\ ~scn.srcNil /\ scn.dstInit = Zero(scn.src.t)

\* a struct whose fields are exported scalars
ScalarStruct(v) ==
    /\ Kind(v.t) = "Struct"
    /\ \A i \in 1..Len(Fields(v.t)) :
          Fields(v.t)[i].exported /\ Kind(Fields(v.t)[i].typ) \in {"Int", "String"}

\* the source objects are as they were before the calls
SourceUntouched == SubSeq(heap, 1, Len(scn.heap0)) = scn.heap0

\* call record r met the depth bound somewhere in its traversal
DepthRaised(r) ==
    \/ Reports(r.res, ErrMaxDepthExceeded)
    \/ \E i \in 1..Len(r.errors) : Reports(r.errors[i], ErrMaxDepthExceeded)

(***************************************************************************)
(* C1.  Copy(&dst, src) with no options, src a struct of exported scalar   *)
(* fields and dst a zero-valued struct of the same type, returns nil and   *)
(* leaves dst equal to src.                                                *)
(***************************************************************************)
C1_CopyScalarStruct ==
    \A c \in Finished :
        (DefaultOptions /\ ZeroDstOfSrcType /\ ScalarStruct(scn.src)) =>
            CallOf(c).res = Nil /\ DstOf(c) = scn.src

C1_Witness ==
    \E c \in Finished :
        /\ DefaultOptions /\ ZeroDstOfSrcType
        /\ scn.src = PersonVal("Alice", 30)
        /\ CallOf(c).res = Nil
        /\ DstOf(c) = PersonVal("Alice", 30)

(***************************************************************************)
(* C2, as stated.  After a successful copy with default options no         *)
(* reference-like value of the destination (pointer, map, slice, channel,  *)
(* function) has the identity of one of the source: the destination        *)
(* reaches no object of the source.                                        *)
(***************************************************************************)
C2_NothingShared ==
    \A c \in Finished :
        (DefaultOptions /\ ZeroDstOfSrcType /\ CallOf(c).res = Nil) =>
            Reach(heap, DstOf(c)) \cap SrcReach = {}

(***************************************************************************)
(* C2, amended.  After a successful copy with default options into a       *)
(* zero-valued destination, no pointer, map or slice of the destination    *)
(* has the identity of an object of the source, and the only objects the   *)
(* two share are the channels and functions of the source, which the       *)
(* destination holds by identity; the source is left as it was.            *)
(***************************************************************************)
C2_OnlyChanFuncShared ==
    \A c \in Finished :
        (DefaultOptions /\ ZeroDstOfSrcType /\ CallOf(c).res = Nil) =>
            /\ ReachOfKind(heap, DstOf(c), {"Pointer", "Map", "Slice"}) \cap SrcReach = {}
            /\ Reach(heap, DstOf(c)) \cap SrcReach
                  = ReachOfKind(scn.heap0, scn.src, {"Chan", "Func"})
            /\ SourceUntouched

C2_Witness ==
    \E c \in Finished :
        /\ DefaultOptions /\ ZeroDstOfSrcType /\ CallOf(c).res = Nil
        /\ scn.src = BagVal(SliceVal("[]*Node", 3, 2), RefVal("map[string]*Node", 5),
                            IfaceVal(RefVal("*Node", 10)), RefVal("chan int", 6),
                            RefVal("func()", 7))
        /\ \A i \in 1..2 : DstOf(c).f[i].n \notin SrcReach \cup {0}
        /\ DstOf(c).f[3].f[1].n \notin SrcReach \cup {0}
        /\ DstOf(c).f[4].n = 6 /\ DstOf(c).f[5].n = 7

C4_CircularOnlyWhenCyclic ==
    ~SrcCyclic =>
        /\ \A p \in Procs : ~Reports(ret[p], ErrCircularReference)
        /\ \A c \in Finished : ~Reports(CallOf(c).res, ErrCircularReference)

(***************************************************************************)
(* C5.  For an acyclic source and default options, two copies into fresh   *)
(* zero-valued destinations of the source's type both succeed and leave    *)
(* destinations deep-equal to each other and to the source.                *)
(***************************************************************************)
C5_RepeatedCopy ==
    \A p \in Procs :
        (Len(calls[p]) >= 2 /\ ~SrcCyclic /\ DefaultOptions /\ ZeroDstOfSrcType) =>
            /\ calls[p][1].res = Nil /\ calls[p][2].res = Nil
            /\ DeepEqual(heap, DstOf(<< p, 1 >>), scn.src)
            /\ DeepEqual(heap, DstOf(<< p, 2 >>), scn.src)
            /\ DeepEqual(heap, DstOf(<< p, 1 >>), DstOf(<< p, 2 >>))

(***************************************************************************)
(* C6.  For an acyclic source, a destination of the same type, no          *)
(* converter, no error handler and a bounded MaxDepth M: with D the        *)
(* greatest depth at which mapValue visits a value of the source, the copy *)
(* reports ErrMaxDepthExceeded when M < D and succeeds when M >= D.        *)
(***************************************************************************)
C6_DepthBound ==
    \A c \in Finished :
        (/\ ~SrcCyclic /\ ZeroDstOfSrcType
         /\ cfg.CustomConverters = {} /\ cfg.ErrorHandler = ""
         /\ cfg.MaxDepth # NoDepthLimit) =>
            IF cfg.MaxDepth < VisitDepth(scn.heap0, cfg, scn.src, 0)
            THEN Reports(CallOf(c).res, ErrMaxDepthExceeded)
            ELSE CallOf(c).res = Nil

(***************************************************************************)
(* C7.  An error a copy returns because a circular reference was detected  *)
(* or the depth bound was exceeded, at any level, matches the sentinel     *)
(* under errors.Is.                                                        *)
(***************************************************************************)
C7_SentinelsMatch ==
    \A c \in Finished :
        /\ Reports(CallOf(c).res, ErrCircularReference)
              => ErrorsIs(CallOf(c).res, ErrCircularReference)
        /\ Reports(CallOf(c).res, ErrMaxDepthExceeded)
              => ErrorsIs(CallOf(c).res, ErrMaxDepthExceeded)

(***************************************************************************)
(* C8.  A call without destination or without source returns              *)
(* ErrNilPointer whatever the other argument is; it takes no context from  *)
(* the pool and writes nothing: the variable behind the destination and    *)
(* the objects of the source are as before.                                *)
(***************************************************************************)
C8_NilArgument ==
    (scn.dst = "nil" \/ scn.srcNil) =>
        /\ ctxs = << >> /\ pool = {}
        /\ \A p \in Procs : held[p] = 0 /\ stack[p] = << >>
        /\ SourceUntouched
        /\ \A c \in Finished :
              /\ CallOf(c).res = ErrNilPointer
              /\ scn.dst = "ptr" => DstOf(c) = scn.dstInit

C8_Witness ==
    /\ scn.srcNil
    /\ \E c \in Finished : CallOf(c).res = ErrNilPointer /\ scn.dst = "value"
    /\ ArgCheck("ptr", TRUE) = ErrNilPointer
    /\ ArgCheck("nil", FALSE) = ErrNilPointer

(***************************************************************************)
(* C9.  A call with a source and a destination that is not a non-nil       *)
(* pointer, i.e. a value that is no pointer or a nil pointer, returns      *)
(* ErrInvalidDestination.                                                  *)
(***************************************************************************)
C9_InvalidDestination ==
    \A c \in Finished :
        (~scn.srcNil /\ scn.dst \in {"value", "nilptr"}) =>
            CallOf(c).res = ErrInvalidDestination

\* the error the mapping of field i of the scalar struct src records
FieldError(src, i) ==
    LET v == src.f[i]
    IN  IF cfg.MaxDepth # NoDepthLimit /\ cfg.MaxDepth < 1 THEN ErrMaxDepthExceeded
        ELSE IF HasConverter(cfg, v.t) THEN CallConverter(ConverterFor(cfg, v.t), v).err
        ELSE Nil

\* the value field i of the scalar struct src leaves in a destination field
\* of the same type when its mapping does not fail: the field itself, or what
\* its converter returns when the field's type takes that
FieldResult(src, i) ==
    LET v == src.f[i]
        conv == CallConverter(ConverterFor(cfg, v.t), v)
    IN  IF ~HasConverter(cfg, v.t) THEN v
        ELSE IF AssignableTo(conv.val.t, v.t) THEN conv.val
        ELSE scn.dstInit.f[i]

(***************************************************************************)
(* C10.  For a struct source of scalar fields, no error handler and a      *)
(* depth bound that admits the struct itself: every field whose mapping    *)
(* does not fail is copied into the destination, the failing fields are    *)
(* left as they were, and the call returns nil when no field failed and    *)
(* otherwise one error holding the number of failed fields and the error   *)
(* of the first failed field in declaration order.                         *)
(***************************************************************************)
C10_SoftErrors ==
    \A c \in Finished :
        (/\ ScalarStruct(scn.src) /\ ZeroDstOfSrcType /\ cfg.ErrorHandler = ""
         /\ (cfg.MaxDepth = NoDepthLimit \/ cfg.MaxDepth >= 0)) =>
            LET failed == { i \in 1..Len(scn.src.f) : FieldError(scn.src, i) # Nil }
                first == CHOOSE i \in failed : \A j \in failed : i <= j
            IN  /\ \A i \in 1..Len(scn.src.f) :
                      DstOf(c).f[i] = IF i \in failed THEN scn.dstInit.f[i]
                                      ELSE FieldResult(scn.src, i)
                /\ CallOf(c).res =
                      IF failed = {} THEN Nil
                      ELSE Err("summary", FieldError(scn.src, first).name, << >>,
                               Cardinality(failed), FieldError(scn.src, first).kind)

C10_Witness ==
    \E c \in Finished :
        /\ scn.src = OrderVal(7, -1, "n")
        /\ cfg.CustomConverters = { << "Money", "rejectNegative" >> }
        /\ CallOf(c).res = Err("summary", "negative amount", << >>, 1, "converter")
        /\ DstOf(c) = OrderVal(7, 0, "n")

(***************************************************************************)
(* C11.  With an error handler that always returns nil, a copy of a struct *)
(* returns nil whichever fields, slice elements or map entries failed:     *)
(* every such failure goes through the handler and is dropped.             *)
(***************************************************************************)
C11_HandlerSeesEveryFailure ==
    \A c \in Finished :
        (/\ cfg.ErrorHandler = "suppress"
         /\ Kind(scn.src.t) = "Struct"
         /\ cfg.MaxDepth = NoDepthLimit \/ cfg.MaxDepth >= 0) =>
            CallOf(c).res = Nil

\* the first field of the scalar struct src whose mapping fails, or 0
FirstFailed(src) ==
    IF \E i \in 1..Len(src.f) : FieldError(src, i) # Nil
    THEN CHOOSE i \in 1..Len(src.f) :
            /\ FieldError(src, i) # Nil
            /\ \A j \in 1..(i - 1) : FieldError(src, j) = Nil
    ELSE 0

(***************************************************************************)
(* C12.  When the error handler returns an error for a failed field, the   *)
(* mapping stops there: no later field of the struct is written and Map    *)
(* returns the handler's error; when the handler returns nil, the fields   *)
(* after the failed one are still mapped.                                  *)
(***************************************************************************)
C12_HandlerErrorStops ==
    \A c \in Finished :
        (/\ cfg.ErrorHandler \in {"replace", "suppress"}
         /\ ScalarStruct(scn.src) /\ ZeroDstOfSrcType
         /\ cfg.MaxDepth = NoDepthLimit \/ cfg.MaxDepth >= 0
         /\ FirstFailed(scn.src) # 0) =>
            LET i == FirstFailed(scn.src)
                name == Fields(scn.src.t)[i].name
            IN  IF cfg.ErrorHandler = "replace"
                THEN /\ CallOf(c).res = CallErrorHandler("replace", FieldError(scn.src, i),
                                                         name, name)
                     /\ \A j \in (i + 1)..Len(scn.src.f) : DstOf(c).f[j] = scn.dstInit.f[j]
                ELSE \A j \in (i + 1)..Len(scn.src.f) :
                        FieldError(scn.src, j) = Nil => DstOf(c).f[j] = FieldResult(scn.src, j)

(***************************************************************************)
(* C13.  With the tag key set to "mapper" and every other option default,  *)
(* copying Source{FullName `mapper:"name"`: "Bob"} into Destination{Name   *)
(* string, Age int} leaves Name = "Bob".                                   *)
(***************************************************************************)
C13_TagScenario ==
    \A c \in Finished :
        (/\ scn.opts = << WithTagName("mapper") >>
         /\ scn.src = SourceVal("Bob", 30)
         /\ scn.dstInit = Zero("Destination")) =>
            DstOf(c).f[1] = StrVal("Bob")

\* a call of the tag scenarios: a Source copied into a zero-valued struct
TagCall == scn.src.t = "Source" /\ scn.dst = "ptr" /\ ~scn.srcNil

\* source field sf takes part in the mapping
TakesPart(sf) ==
    /\ sf.exported \/ sf.anon \/ ~cfg.IgnoreUnexported
    /\ cfg.TagName # "" => TagGet(sf, cfg.TagName) \notin {"", "-"}

\* the destination name of source field sf by the order of priority:
\* configured tag, json tag, name mapper, declared name
PriorityName(sf) ==
    LET usable(tag) == tag # "" /\ tag # "-"
    IN  CASE cfg.TagName # "" /\ usable(TagGet(sf, cfg.TagName)) -> TagGet(sf, cfg.TagName)
          [] ~(cfg.TagName # "" /\ usable(TagGet(sf, cfg.TagName)))
             /\ cfg.UseJSONTag /\ usable(sf.json) -> sf.json
          [] ~(cfg.TagName # "" /\ usable(TagGet(sf, cfg.TagName)))
             /\ ~(cfg.UseJSONTag /\ usable(sf.json))
             /\ cfg.FieldNameMapper # "" -> CallFieldNameMapper(cfg.FieldNameMapper, sf.name)
          [] OTHER -> sf.name

\* what a copy of src leaves in a destination of type dt when target(i) is
\* the destination field of source field i (0 when it has none): every
\* targeted field holds the value of its source field, the others are as
\* before, and the call succeeds
MappedBy(c, target(_)) ==
    LET n == Len(scn.src.f)
        part == { i \in 1..n : TakesPart(Fields(scn.src.t)[i]) /\ target(i) # 0 }
    IN  /\ CallOf(c).res = Nil
        /\ \A i \in part : DstOf(c).f[target(i)] = scn.src.f[i]
        /\ \A j \in 1..Len(scn.dstInit.f) :
              (\A i \in part : target(i) # j) => DstOf(c).f[j] = scn.dstInit.f[j]

(***************************************************************************)
(* C14.  The destination name of a source field that takes part in the     *)
(* mapping is the value of the configured tag if present and not "-", else *)
(* the json tag if UseJSONTag is on and it is present and not "-", else    *)
(* FieldNameMapper(declared name) if a mapper is set, else the declared    *)
(* name: the field found under that name receives the value, and with a    *)
(* configured tag it is never the field of the source field's own name.    *)
(***************************************************************************)
C14_NamePriority ==
    \A c \in Finished :
        TagCall =>
            LET target(i) == findDstField(cfg, scn.dstInit.t,
                                          PriorityName(Fields(scn.src.t)[i]))
            IN  /\ MappedBy(c, target)
                /\ \A i \in 1..Len(scn.src.f) :
                      (cfg.TagName # "" /\ target(i) # 0) =>
                          Fields(scn.dstInit.t)[target(i)].name # Fields(scn.src.t)[i].name

C14_Witness ==
    \E c \in Finished :
        /\ TagCall /\ scn.dstInit.t = "Wide"
        /\ cfg.TagName = "mapper" /\ cfg.UseJSONTag /\ cfg.FieldNameMapper = "lower"
        /\ ~cfg.CaseSensitive
        /\ DstOf(c) = StructVal("Wide", << StrVal("Bob"), StrVal(""), IntVal(30),
                                           StrVal(""), IntVal(0) >>)

\* the destination field of type dt for the resolved name nm: the field of
\* exactly that name, else without case sensitivity the first field of that
\* name up to letter case, else none
Lookup(dt, nm) ==
    LET names == [j \in 1..Len(Fields(dt)) |-> Fields(dt)[j].name]
        exact == { j \in DOMAIN names : names[j] = nm }
        folded == { j \in DOMAIN names : LowerName(names[j]) = LowerName(nm) }
        least(S) == CHOOSE j \in S : \A k \in S : j <= k
    IN  IF exact # {} THEN least(exact)
        ELSE IF ~cfg.CaseSensitive /\ folded # {} THEN least(folded)
        ELSE 0

(***************************************************************************)
(* C15.  The destination field of a resolved name is the field of exactly  *)
(* that name when there is one; otherwise, with CaseSensitive off, the     *)
(* first field in declaration order that equals it up to letter case;      *)
(* with CaseSensitive on a field that differs in case is not matched and   *)
(* the source field is skipped without error.                              *)
(***************************************************************************)
C15_DestinationLookup ==
    \A c \in Finished :
        TagCall =>
            LET target(i) == Lookup(scn.dstInit.t,
                                    getDestFieldName(cfg, Fields(scn.src.t)[i]))
            IN  MappedBy(c, target)

C15_Witness ==
    \E c \in Finished :
        /\ TagCall /\ scn.dstInit.t = "Wide"
        /\ cfg.TagName = "" /\ cfg.UseJSONTag /\ cfg.FieldNameMapper = "lower"
        /\ ~cfg.CaseSensitive
        /\ DstOf(c) = StructVal("Wide", << StrVal(""), StrVal("Bob"), IntVal(0),
                                           StrVal(""), IntVal(30) >>)

\* caller p takes a step in mapValue for a value whose type has a converter
ConverterStep(p) ==
    /\ At(p, "mapValue", "entry")
    /\ IsValid(Top(p).src)
    /\ HasConverter(cfg, Top(p).src.t)
    /\ stack'[p] # stack[p]

(***************************************************************************)
(* C16.  When a converter is registered for the type of the value mapValue *)
(* is given, mapValue returns without dispatching to a handler, so the     *)
(* value is not recursed into, and leaves the depth counter as it was.     *)
(* When the value passed the depth, nil and cycle checks, the converter is *)
(* invoked: its error is the error mapValue returns; on success mapValue   *)
(* returns nil and the destination holds the converter's result when the   *)
(* result's type is assignable to the destination, and is untouched        *)
(* otherwise.                                                              *)
(***************************************************************************)
C16_ConverterShortCircuit ==
    [][\A p \in Procs :
          ConverterStep(p) =>
              LET f == Top(p)
                  c == ctxOf(p)
                  conv == CallConverter(ConverterFor(cfg, f.src.t), f.src)
                  invoked ==
                      /\ cfg.MaxDepth = NoDepthLimit \/ c.depth <= cfg.MaxDepth
                      /\ ~(IsNillable(Kind(f.src.t)) /\ IsNil(f.src))
                      /\ cfg.SkipCircularCheck \/ ~IsPointerLike(Kind(f.src.t))
                            \/ checkCircular(c, f.src).err = Nil
                  assigned ==
                      /\ conv.err = Nil
                      /\ CanSet(f.dst)
                      /\ AssignableTo(conv.val.t, ReadLoc(heap, f.dst).t)
              IN  /\ stack'[p] = SubSeq(stack[p], 1, Len(stack[p]) - 1)
                  /\ ctxs'[held[p]].depth = c.depth
                  /\ invoked =>
                        /\ ret'[p] = conv.err
                        /\ heap' = IF assigned
                                   THEN WriteLoc(heap, f.dst,
                                                 SetValue(ReadLoc(heap, f.dst).t, conv.val))
                                   ELSE heap]_vars

C16_Witness ==
    \E c \in Finished :
        /\ scn.src = OrderVal(7, 5, "n")
        /\ cfg.CustomConverters = { << "Money", "format" >> }
        /\ CallOf(c).res = Nil
        /\ DstOf(c) = StructVal("Invoice", << IntVal(7), StrVal("5"), StrVal("n") >>)

\* the entries of the map a finished call left in its destination
DstEntries(c) ==
    IF DstOf(c).n = 0 THEN {} ELSE heap[DstOf(c).n].m

(***************************************************************************)
(* C17.  Copying the map {"a": 1, "b": 2} of integers into a destination   *)
(* map of strings, with no converter registered, skips the entries: the    *)
(* destination map ends empty.                                             *)
(***************************************************************************)
C17_MapEndsEmpty ==
    \A c \in Finished :
        (scn \in MapScenarios) => DstEntries(c) = {}

\* what a call on the scalar struct src returns and leaves in its destination
\* when no other call runs: a depth bound below zero rejects the struct
\* itself, otherwise every field is mapped and the failures are summarised
Alone(src) ==
    LET failed == { i \in 1..Len(src.f) : FieldError(src, i) # Nil }
        first == CHOOSE i \in failed : \A j \in failed : i <= j
    IN  IF cfg.MaxDepth # NoDepthLimit /\ cfg.MaxDepth < 0
        THEN [res |-> ErrMaxDepthExceeded, dst |-> scn.dstInit]
        ELSE [res |-> IF failed = {} THEN Nil
                      ELSE Err("summary", FieldError(src, first).name, << >>,
                               Cardinality(failed), FieldError(src, first).kind),
              dst |-> [scn.dstInit EXCEPT !.f =
                          [i \in 1..Len(src.f) |->
                              IF i \in failed THEN scn.dstInit.f[i]
                              ELSE FieldResult(src, i)]]]

\* the callers that are inside Map
InFlight == { p \in Procs : stack[p] # << >> }

(***************************************************************************)
(* C18.  In every interleaving of concurrent Map calls on one Mapper, each *)
(* call with its own destination: no context is held by two calls in       *)
(* flight, a held context is not in the pool, the Mapper's Config stays    *)
(* what NewMapper built, and every finished call on a struct of scalar     *)
(* fields has the result and the destination of the same call run alone.   *)
(***************************************************************************)
C18_ThreadSafety ==
    /\ \A p \in InFlight : held[p] \in (1..Len(ctxs)) \ pool
    /\ \A p, q \in InFlight : p # q => held[p] # held[q]
    /\ cfg = NewMapper(scn.opts)
    /\ \A c \in Finished :
          (scn.callers > 1 /\ ScalarStruct(scn.src) /\ ZeroDstOfSrcType
                /\ cfg.ErrorHandler = "") =>
              /\ CallOf(c).res = Alone(scn.src).res
              /\ DstOf(c) = Alone(scn.src).dst

\* two calls are in flight at once, one of them with a recorded field
\* failure, the other inside a handler
C18_Witness ==
    \E p, q \in InFlight :
        /\ p # q
        /\ Len(ctxs[held[p]].errors) > 0
        /\ Len(stack[q]) > 2
        /\ scn.callers > 1

\* the configuration bounds the traversal: addresses are checked, or the
\* depth is bounded (by a bound the model's depth cap does not cut short)
Terminating ==
    \/ ~cfg.SkipCircularCheck
    \/ cfg.MaxDepth # NoDepthLimit /\ cfg.MaxDepth < DepthCap

\* the call of caller p has descended beyond the depth the model follows
Runaway(p) == At(p, "mapValue", "entry") /\ ctxOf(p).depth > DepthCap

(***************************************************************************)
(* C19.  A call of Map on a finite source, cyclic or not, returns when     *)
(* addresses are checked or MaxDepth is bounded.  A traversal descends     *)
(* without end only for a cyclic source with SkipCircularCheck and no      *)
(* depth bound within the depths the model follows.                        *)
(***************************************************************************)
C19_Terminates ==
    /\ \A p \in Procs : (stack[p] # << >> /\ Terminating) ~> (stack[p] = << >>)
    /\ [](\A p \in Procs :
             Runaway(p) => /\ cfg.SkipCircularCheck
                           /\ cfg.MaxDepth = NoDepthLimit \/ cfg.MaxDepth >= DepthCap
                           /\ Cyclic(scn.heap0, scn.src))

\* a call on a cyclic source returned although addresses were not checked,
\* stopped by the depth bound
C19_Witness ==
    \E c \in Finished :
        /\ Cyclic(scn.heap0, scn.src)
        /\ cfg.SkipCircularCheck
        /\ cfg.MaxDepth = MaxM
        /\ Reports(CallOf(c).res, ErrMaxDepthExceeded)

\* a traversal of a cyclic source without address checks and without a depth
\* bound is still descending at the depth cap
C19_RunawayReached ==
    \E p \in Procs : Runaway(p) /\ cfg.MaxDepth = NoDepthLimit

\* the caller built the Mapper with WithIgnoreNilFields(true)
SkipsNil == \E k \in 1..Len(scn.opts) : scn.opts[k] = WithIgnoreNilFields(TRUE)

\* the fields of the struct src that are nil pointers, maps, slices or
\* interfaces and have a destination field
NilFields(src, dstType) ==
    { i \in 1..Len(src.f) :
        /\ Kind(src.f[i].t) \in {"Pointer", "Map", "Slice", "Interface"}
        /\ IsNil(src.f[i])
        /\ FieldPlan(cfg, src.t, dstType, i) # 0 }

\* after call c, the destination fields of the nil fields of the source hold
\* what they held before the call
NilFieldsKept(c) ==
    \A i \in NilFields(scn.src, scn.dstInit.t) :
        LET j == FieldPlan(cfg, scn.src.t, scn.dstInit.t, i)
        IN  DstOf(c).f[j] = scn.dstInit.f[j]

(***************************************************************************)
(* C20, as stated.  With IgnoreNilFields = true, for every setting of the  *)
(* other options, the destination field of every nil pointer, map, slice   *)
(* or interface field of the source holds after Map the value it held      *)
(* before the call.                                                        *)
(***************************************************************************)
C20_NilFieldsKeptAlways ==
    \A c \in Finished :
        (SkipsNil /\ Kind(scn.src.t) = "Struct" /\ scn.dst = "ptr" /\ ~scn.srcNil) =>
            NilFieldsKept(c)

(***************************************************************************)
(* C20, amended.  With IgnoreNilFields = true and ZeroFields off, for      *)
(* every setting of the other options, the destination field of every nil  *)
(* pointer, map, slice or interface field of the source holds after Map    *)
(* the value it held before the call.                                      *)
(***************************************************************************)
C20_NilFieldsKept ==
    \A c \in Finished :
        (/\ SkipsNil /\ ~cfg.ZeroFields
         /\ Kind(scn.src.t) = "Struct" /\ scn.dst = "ptr" /\ ~scn.srcNil) =>
            NilFieldsKept(c)

\* a call with nil slice, map and interface fields has returned and left the
\* slice, the map and the interface value of the destination in place
C20_Witness ==
    \E c \in Finished :
        /\ SkipsNil /\ ~cfg.ZeroFields
        /\ scn.src = Zero("Bag")
        /\ CallOf(c).res = Nil
        /\ NilFields(scn.src, "Bag") # {}
        /\ DstOf(c).f[1] = SliceVal("[]*Node", 4, 2)
        /\ DstOf(c).f[3] = IfaceVal(IntVal(7))

\* Config.validate returns nil
validate(c) == c.MaxDepth >= NoDepthLimit /\ c.MaxSliceCapacity >= 0

(***************************************************************************)
(* C21.  Every configuration a Map operation runs with has been validated: *)
(* while a call is inside Map, MaxDepth >= -1 and MaxSliceCapacity >= 0.   *)
(***************************************************************************)
C21_ConfigValidated ==
    \A p \in Procs : stack[p] # << >> => validate(cfg)

(***************************************************************************)
(* C22.  With AllowPrivateFields = true and IgnoreUnexported = true, an    *)
(* unexported source field is not skipped: the field name of Secret is     *)
(* resolved (without regard to case) to the field Name of Destination and  *)
(* copied into it like an exported field.                                  *)
(***************************************************************************)
C22_PrivateFieldCopied ==
    \A c \in Finished :
        (/\ cfg.AllowPrivateFields /\ cfg.IgnoreUnexported /\ ~cfg.CaseSensitive
         /\ scn.src.t = "Secret" /\ scn.dstInit = Zero("Destination")) =>
            DstOf(c).f[1] = scn.src.f[1]

(***************************************************************************)
(* C23.  Under WithMaxSliceCapacity(m), no destination slice that the      *)
(* slice handler allocates is longer than m: after the copy of a struct    *)
(* whose field Items is a slice, the destination's Items has a length of   *)
(* at most Config.MaxSliceCapacity.                                        *)
(***************************************************************************)
C23_SliceCapacityLimit ==
    \A c \in Finished :
        (scn \in CapacityScenarios) => LenOf(DstOf(c).f[1]) <= cfg.MaxSliceCapacity

\* the fields of the struct v that are non-nil pointers, slices or maps
RefFields(v) ==
    { i \in 1..Len(v.f) : Kind(v.f[i].t) \in {"Pointer", "Slice", "Map"} /\ ~IsNil(v.f[i]) }

(***************************************************************************)
(* C24.  With DeepCopy = false the copy is shallow: every non-nil pointer, *)
(* slice or map field of the destination is the source's own reference.    *)
(***************************************************************************)
C24_ShallowWithoutDeepCopy ==
    \A c \in Finished :
        (/\ ~cfg.DeepCopy /\ Kind(scn.src.t) = "Struct" /\ ZeroDstOfSrcType
         /\ CallOf(c).res = Nil) =>
            \A i \in RefFields(scn.src) : DstOf(c).f[i] = scn.src.f[i]

\* the settings the README's table of options documents
Documented ==
    {"MaxDepth", "TagName", "IgnoreUnexported", "DeepCopy", "ZeroFields", "IgnoreNilFields",
     "CaseSensitive", "UseJSONTag", "SkipCircularCheck"}

(***************************************************************************)
(* C25.  The configuration of a Mapper built without options has the       *)
(* documented defaults, the values of defaultConfig(): MaxDepth 32,        *)
(* TagName "mapper", IgnoreUnexported and DeepCopy true, ZeroFields and    *)
(* IgnoreNilFields false, CaseSensitive true, UseJSONTag and               *)
(* SkipCircularCheck false.                                                *)
(***************************************************************************)
C25_DocumentedDefaults ==
    scn.opts = << >> => \A k \in Documented : cfg[k] = defaultConfig[k]

\* caller p enters the traversal of a new Map call
StartsCall(p) == stack[p] = << >> /\ stack'[p] # << >>

\* some map of the source holds one address under two keys, so that the
\* order of iteration decides which of the two entries is visited first
SharedEntries ==
    \E a \in 1..Len(scn.heap0) : \E pr, qr \in scn.heap0[a].m :
        /\ pr # qr
        /\ IsPointerLike(Kind(pr[2].t)) /\ pr[2].n # 0
        /\ pr[2].n = qr[2].n

(***************************************************************************)
(* C26.  Whatever calls came before, the context a Map call starts its     *)
(* traversal with has no visited address, no error, depth 0 and the        *)
(* Mapper's config; and the calls one caller makes one after the other on  *)
(* the same source (one whose maps hold no address under two keys, so that *)
(* the order of iteration is of no account) return the same error, record  *)
(* the same soft errors and leave destinations of the same content.        *)
(***************************************************************************)
C26_ResetBeforeReuse ==
    /\ [][\A p \in Procs :
             StartsCall(p) => ctxs'[held'[p]] = Context({}, 0, TRUE, << >>)]_vars
    /\ [](\A c, d \in Finished :
             (c[1] = d[1] /\ scn.dst = "ptr" /\ ~SharedEntries) =>
                 /\ CallOf(c).res = CallOf(d).res
                 /\ CallOf(c).errors = CallOf(d).errors
                 /\ DeepEqual(heap, DstOf(c), DstOf(d)))

\* a caller's second call has finished with the context of its first call,
\* which had ended with a soft error
C26_Witness ==
    \E p \in Procs :
        /\ Len(calls[p]) = 2
        /\ calls[p][1].ctx = calls[p][2].ctx
        /\ calls[p][1].errors # << >>
        /\ calls[p][2].res = calls[p][1].res

\* the activations of mapValue of caller p that have reached the dispatch and
\* not yet returned
Dispatched(p) ==
    { i \in 1..Len(stack[p]) : stack[p][i].fn = "mapValue" /\ stack[p][i].pc = "deferred" }

(***************************************************************************)
(* C27.  The depth counter is paired with the activations of mapValue: at  *)
(* every moment of a call it equals the number of mapValue activations     *)
(* that have passed the dispatch and not yet returned.  So every return of *)
(* mapValue (success, failure or early exit) leaves the depth at its value *)
(* on entry, the siblings of one container are visited at one depth, and   *)
(* the depth is 0 when Map returns.                                        *)
(***************************************************************************)
C27_PairedDepth ==
    \A p \in InFlight :
        /\ ctxOf(p).depth = Cardinality(Dispatched(p))
        /\ Len(stack[p]) = 1 => ctxOf(p).depth = 0

\* mapValue is entered, below the top level, for a sibling of a value whose
\* mapping failed
C27_Witness ==
    \E p \in InFlight :
        /\ At(p, "mapValue", "entry")
        /\ ctxOf(p).depth >= 2
        /\ ctxOf(p).errors # << >>

\* the error the mapping of the entry e of a top-level map of scalars ends
\* with: the depth bound rejects the key, or the converter rejects the value
EntryError(e) ==
    IF cfg.MaxDepth # NoDepthLimit /\ cfg.MaxDepth < 1 THEN ErrMaxDepthExceeded
    ELSE IF HasConverter(cfg, e[2].t) THEN CallConverter(ConverterFor(cfg, e[2].t), e[2]).err
    ELSE Nil

\* the value stored for the entry e of a top-level map of scalars in a
\* destination map of the element type et when the mapping does not fail
EntryValue(e, et) ==
    LET conv == CallConverter(ConverterFor(cfg, e[2].t), e[2])
    IN  IF ~HasConverter(cfg, e[2].t) THEN e[2]
        ELSE IF AssignableTo(conv.val.t, et) THEN conv.val
        ELSE Zero(et)

\* the entries a map value refers to
EntriesOf(h, v) == IF v.n = 0 THEN {} ELSE h[v.n].m

(***************************************************************************)
(* C28.  After a map of scalars was mapped into a map of the same type:    *)
(* the destination, made anew when it was nil and the same map otherwise,  *)
(* holds its previous entries but for the keys of the source entries that  *)
(* were mapped without failure, and for each of these one entry with the   *)
(* converted value; every failing source entry is left out and has added   *)
(* exactly one soft error, and the entries after it were still processed.  *)
(***************************************************************************)
C28_MapEntries ==
    \A c \in Finished :
        (/\ Kind(scn.src.t) = "Map" /\ scn.dst = "ptr" /\ ~scn.srcNil
         /\ Kind(Elem(scn.src.t)) \in {"Int", "String"}
         /\ scn.dstInit.t = scn.src.t /\ ~HasConverter(cfg, "string")
         /\ (cfg.MaxDepth = NoDepthLimit \/ cfg.MaxDepth >= 0)) =>
            LET src == EntriesOf(scn.heap0, scn.src)
                pre == EntriesOf(scn.heap0, scn.dstInit)
                good == { e \in src : EntryError(e) = Nil }
            IN  /\ DstOf(c).n # 0
                /\ scn.dstInit.n # 0 => DstOf(c).n = scn.dstInit.n
                /\ scn.dstInit.n = 0 => DstOf(c).n > Len(scn.heap0)
                /\ EntriesOf(heap, DstOf(c)) =
                      { pr \in pre : \A e \in good : e[1] # pr[1] }
                          \cup { << e[1], EntryValue(e, Elem(scn.dstInit.t)) >> : e \in good }
                /\ Len(CallOf(c).errors) = Cardinality(src \ good)
                /\ \A e \in src \ good :
                      \E k \in 1..Len(CallOf(c).errors) : CallOf(c).errors[k] = EntryError(e)

\* a map with one accepted and one rejected entry was mapped into a map that
\* held an entry under the accepted key and another one
C28_Witness ==
    \E c \in Finished :
        /\ scn \in MergeScenarios
        /\ cfg.CustomConverters = { << "int", "rejectNegative" >> }
        /\ scn.dstInit.n = 2
        /\ Len(CallOf(c).errors) = 1
        /\ EntriesOf(heap, DstOf(c)) =
              { << StrVal("a"), IntVal(1) >>, << StrVal("z"), IntVal(9) >> }

\* the error the mapping of the element v of a top-level slice of scalars
\* ends with, before the index is added
ElemError(v) ==
    IF cfg.MaxDepth # NoDepthLimit /\ cfg.MaxDepth < 1 THEN ErrMaxDepthExceeded
    ELSE IF HasConverter(cfg, v.t) THEN CallConverter(ConverterFor(cfg, v.t), v).err
    ELSE Nil

\* the value a destination element holding old has after the element v of a
\* top-level slice of scalars of its type was mapped into it
ElemValue(v, old) ==
    LET conv == CallConverter(ConverterFor(cfg, v.t), v)
    IN  IF ElemError(v) # Nil THEN old
        ELSE IF ~HasConverter(cfg, v.t) THEN v
        ELSE IF AssignableTo(conv.val.t, old.t) THEN conv.val
        ELSE old

(***************************************************************************)
(* C29.  After a slice of n scalars was mapped into a slice or an array of *)
(* the same element type: a destination slice that was nil or shorter than *)
(* n is a new slice of length n, nothing of its prior content left; a      *)
(* destination slice of length >= n and a destination array are the ones   *)
(* given; exactly the elements at the indexes below min(len(dst), n) are   *)
(* mapped from the source, the later ones keep their values; and every     *)
(* failing element has added one soft error carrying its index, the        *)
(* elements after it being mapped all the same.                            *)
(***************************************************************************)
C29_SliceElements ==
    \A c \in Finished :
        (/\ scn \in SliceScenarios
         /\ (cfg.MaxDepth = NoDepthLimit \/ cfg.MaxDepth >= 0)) =>
            LET n == LenOf(scn.src)
                d0 == scn.dstInit
                d == DstOf(c)
                fresh == Kind(d0.t) = "Slice" /\ (IsNil(d0) \/ LenOf(d0) < n)
                m == IF fresh THEN n ELSE min(LenOf(d0), n)
                old(i) == IF fresh THEN Zero(Elem(d0.t)) ELSE IndexVal(scn.heap0, d0, i)
                failed == { i \in 0..(m - 1) : ElemError(IndexVal(scn.heap0, scn.src, i)) # Nil }
            IN  /\ IF fresh THEN d.n > Len(scn.heap0) /\ LenOf(d) = n
                   ELSE d.n = d0.n /\ LenOf(d) = LenOf(d0)
                /\ \A i \in 0..(LenOf(d) - 1) :
                      IndexVal(heap, d, i) =
                          IF i < m THEN ElemValue(IndexVal(scn.heap0, scn.src, i), old(i))
                          ELSE old(i)
                /\ Len(CallOf(c).errors) = Cardinality(failed)
                /\ \A i \in failed :
                      \E k \in 1..Len(CallOf(c).errors) :
                          CallOf(c).errors[k] =
                              WrapIndex(i, ElemError(IndexVal(scn.heap0, scn.src, i)))

\* the slice {1, -1} was mapped into the slice {7} with a converter that
\* rejects -1: the destination is a new slice {1, 0} and one soft error
\* carries the index 1
C29_Witness ==
    \E c \in Finished :
        /\ scn \in SliceScenarios
        /\ scn.dstInit = SliceVal("[]int", 2, 1)
        /\ cfg.CustomConverters = { << "int", "rejectNegative" >> }
        /\ LenOf(DstOf(c)) = 2
        /\ IndexVal(heap, DstOf(c), 0) = IntVal(1)
        /\ IndexVal(heap, DstOf(c), 1) = IntVal(0)
        /\ CallOf(c).errors = << WrapIndex(1, ConverterError("negative amount")) >>

(***************************************************************************)
(* C30.  The outcome of Map does not depend on the order in which a source *)
(* map is iterated: two calls on the same source, initial destination and  *)
(* configuration, whatever order each iterates in, return the same error   *)
(* and leave destinations of the same content, also when two entries of    *)
(* the source map hold the same pointer and addresses are checked.         *)
(***************************************************************************)
C30_OrderIndependent ==
    \A c, d \in Finished :
        (Kind(scn.src.t) = "Map" /\ scn.dst = "ptr" /\ ~scn.srcNil) =>
            /\ CallOf(c).res = CallOf(d).res
            /\ DeepEqual(heap, DstOf(c), DstOf(d))

====
